---------------------------- MODULE Spec2Model ----------------------------
(***************************************************************************)
(* Template compiler (parseTemplate) and renderer (renderTemplate) of the  *)
(* command publisher, and the server that publishes the compiled templates *)
(* of the files it watches.  Text is a sequence of one-character strings,  *)
(* so the two regular expressions of the parser are evaluated on           *)
(* characters.  Spec steps one compile and its renders; ServerSpec steps   *)
(* the watcher, the tool registry and the requests.                        *)
(***************************************************************************)
EXTENDS Integers, Sequences, FiniteSets, TLC

(***************************************************************************)
(* Bounds of the model.                                                    *)
(***************************************************************************)
\* A body is the concatenation of at most MaxPieces pieces of BodyPieces.
MaxPieces == 3

(***************************************************************************)
(* Text helpers.                                                           *)
(***************************************************************************)
\* The JavaScript value undefined, kept apart from every text.
Undefined == <<"<undefined>">>

\* What String(f) yields for the function value found under an inherited
\* property name ("function Object() { [native code] }"), as one atom.
FunctionText == <<"function Object() { [native code] }">>

\* Characters matched by \s.
Whitespace == {" ", "\n"}

\* body.slice(from - 1, to) in 1-based inclusive positions.
Slice(s, from, to) == IF from > to THEN <<>> ELSE SubSeq(s, from, to)

RECURSIVE TrimLeft(_)
TrimLeft(s) ==
  IF s # <<>> /\ Head(s) \in Whitespace THEN TrimLeft(Tail(s)) ELSE s

RECURSIVE TrimRight(_)
TrimRight(s) ==
  IF s # <<>> /\ s[Len(s)] \in Whitespace
  THEN TrimRight(SubSeq(s, 1, Len(s) - 1))
  ELSE s

\* String.prototype.trim
Trim(s) == TrimRight(TrimLeft(s))

RECURSIVE Flatten(_)
Flatten(ss) == IF ss = <<>> THEN <<>> ELSE Head(ss) \o Flatten(Tail(ss))

\* What String(o) yields for the object found under __proto__
\* ("[object Object]"), as one atom.
ObjectText == <<"[object Object]">>

\* Property names every plain object inherits from Object.prototype; the
\* model carries two of them: constructor, a method, and __proto__, the
\* accessor of the prototype (reading it gives Object.prototype, assigning an
\* object to it replaces the prototype and creates no own property).
Ctor == <<"c","o","n","s","t","r","u","c","t","o","r">>
Proto == <<"_","_","p","r","o","t","o","_","_">>
ObjectPrototypeKeys == { Ctor, Proto }


\* ------------------------------------------------------------------------
\* PLACEHOLDER_PATTERN = /#\{(\?|\/)?([^}?]*?)(\?)?}/g
\* ------------------------------------------------------------------------
NoMatch == [found |-> FALSE]

\* Where the lazy [^}?]*? starting at p has to stop: the first "}" or "?"
\* at or after p, 0 when the text ends first.
RECURSIVE NameEnd(_, _)
NameEnd(body, p) ==
  IF p > Len(body) THEN 0
  ELSE IF body[p] \in {"}", "?"} THEN p
  ELSE NameEnd(body, p + 1)

\* ([^}?]*?)(\?)?} with the name starting at p, for a match starting at i.
MatchTail(body, i, prefix, p) ==
  LET e == NameEnd(body, p) IN
  IF e = 0 THEN NoMatch
  ELSE IF body[e] = "}"
  THEN [found |-> TRUE, index |-> i, end |-> e, prefix |-> prefix,
        name |-> Slice(body, p, e - 1), suffix |-> ""]
  ELSE IF e + 1 <= Len(body) /\ body[e + 1] = "}"
  THEN [found |-> TRUE, index |-> i, end |-> e + 1, prefix |-> prefix,
        name |-> Slice(body, p, e - 1), suffix |-> "?"]
  ELSE NoMatch

\* The pattern tried at position i: the optional prefix is taken first and
\* given up only when the rest fails with it.
MatchAt(body, i) ==
  IF ~(i + 1 <= Len(body) /\ body[i] = "#" /\ body[i + 1] = "{") THEN NoMatch
  ELSE LET withPrefix ==
             IF i + 2 <= Len(body) /\ body[i + 2] \in {"?", "/"}
             THEN MatchTail(body, i, body[i + 2], i + 3)
             ELSE NoMatch
       IN IF withPrefix.found THEN withPrefix
          ELSE MatchTail(body, i, "", i + 2)

\* The first position at or after pos that holds the character, one past
\* the end of the text when there is none.
IndexFrom(text, char, pos) ==
  IF \E i \in pos .. Len(text) : text[i] = char
  THEN CHOOSE i \in pos .. Len(text) :
         text[i] = char /\ \A j \in pos .. i - 1 : text[j] # char
  ELSE Len(text) + 1

\* Array.from(body.matchAll(PLACEHOLDER_PATTERN)), searching from pos: the
\* pattern is tried at every `#` in turn.
RECURSIVE MatchAll(_, _)
MatchAll(body, pos) ==
  LET hash == IndexFrom(body, "#", pos) IN
  IF hash > Len(body) THEN <<>>
  ELSE LET m == MatchAt(body, hash) IN
       IF m.found THEN <<m>> \o MatchAll(body, m.end + 1)
       ELSE MatchAll(body, hash + 1)

\* match[0]
FullMatch(body, m) == SubSeq(body, m.index, m.end)

\* ------------------------------------------------------------------------
\* FRONTMATTER_PATTERN = /^---\s*\n([\s\S]*?)\n---\s*\n([\s\S]*)$/
\* ------------------------------------------------------------------------
\* Last position of the whitespace run that starts at p (p - 1 if empty).
RECURSIVE WsRunEnd(_, _)
WsRunEnd(s, p) ==
  IF p <= Len(s) /\ s[p] \in Whitespace THEN WsRunEnd(s, p + 1) ELSE p - 1

\* Positions at which \s*\n, started at p, can end.
DelimEnds(s, p) == { q \in p .. WsRunEnd(s, p) : s[q] = "\n" }

IsDashes(s, p) ==
  p + 2 <= Len(s) /\ s[p] = "-" /\ s[p + 1] = "-" /\ s[p + 2] = "-"

\* Ends g of the lazy first group, for an opening delimiter ending at q.
GroupEnds(s, q) ==
  { g \in q .. Len(s) :
      /\ g + 1 <= Len(s) /\ s[g + 1] = "\n"
      /\ IsDashes(s, g + 2)
      /\ DelimEnds(s, g + 5) # {} }

Max(S) == CHOOSE x \in S : \A y \in S : y <= x
Min(S) == CHOOSE x \in S : \A y \in S : x <= y

\* content.match(FRONTMATTER_PATTERN): greedy \s* (longest first, shorter on
\* failure), lazy first group (shortest), greedy closing \s*.
FrontmatterMatch(content) ==
  IF ~IsDashes(content, 1) THEN NoMatch
  ELSE LET qs == { q \in DelimEnds(content, 4) : GroupEnds(content, q) # {} } IN
       IF qs = {} THEN NoMatch
       ELSE LET q == Max(qs)
                g == Min(GroupEnds(content, q))
                c == Max(DelimEnds(content, g + 5))
            IN [found |-> TRUE,
                yamlContent |-> Slice(content, q + 1, g),
                bodyContent |-> Slice(content, c + 1, Len(content))]


(***************************************************************************)
(* Header: YAML.parse and parseYAMLSafely.                                 *)
(***************************************************************************)
YamlA == <<"a", ":", " ", "d">>
YamlAOpt == <<"a", "?", ":", " ", "d">>
YamlAB == <<"a", ":", " ", "d", "\n", "b", "?", ":", " ", "\"", "\"">>
YamlBad == <<"[">>
YamlBlank == <<"a", ":", " ", "\"", " ", "\"">>

\* YAML.parse of the yaml package, on the header texts the model uses: a
\* mapping as its entries in document order, a syntax error as a throw,
\* anything else as a value that is no object.
YamlParse(yamlContent) ==
  CASE yamlContent = YamlA ->
         [threw |-> FALSE, object |-> TRUE,
          entries |-> << [key |-> <<"a">>, value |-> <<"d">>] >>]
    [] yamlContent = YamlAOpt ->
         [threw |-> FALSE, object |-> TRUE,
          entries |-> << [key |-> <<"a", "?">>, value |-> <<"d">>] >>]
    [] yamlContent = YamlAB ->
         [threw |-> FALSE, object |-> TRUE,
          entries |-> << [key |-> <<"a">>, value |-> <<"d">>],
                         [key |-> <<"b", "?">>, value |-> <<>>] >>]
    [] yamlContent = YamlBlank ->
         [threw |-> FALSE, object |-> TRUE,
          entries |-> << [key |-> <<"a">>, value |-> <<" ">>] >>]
    [] yamlContent = YamlBad -> [threw |-> TRUE, object |-> FALSE, entries |-> <<>>]
    [] OTHER -> [threw |-> FALSE, object |-> FALSE, entries |-> <<>>]

EndsWithQuestion(key) == key # <<>> /\ key[Len(key)] = "?"

\* Object.fromEntries: a later entry replaces an earlier one of the same key.
RECURSIVE FromEntries(_)
FromEntries(entries) ==
  IF entries = <<>> THEN <<>>
  ELSE LET n == Len(entries)
           e == entries[n]
           isOptional == EndsWithQuestion(e.key)
           cleanKey == IF isOptional THEN SubSeq(e.key, 1, Len(e.key) - 1) ELSE e.key
           rest == FromEntries(SubSeq(entries, 1, n - 1))
           entry == [value |-> e.value, optional |-> isOptional]
       IN IF rest = <<>> THEN (cleanKey :> entry)
          ELSE [k \in DOMAIN rest \cup {cleanKey} |->
                  IF k = cleanKey THEN entry ELSE rest[k]]

\* The empty object {} is the empty function <<>>.
parseYAMLSafely(yamlContent) ==
  LET parsed == YamlParse(yamlContent) IN
  IF parsed.threw \/ ~parsed.object THEN <<>>
  ELSE FromEntries(parsed.entries)

extractFrontmatter(content) ==
  LET match == FrontmatterMatch(content) IN
  IF ~match.found THEN [frontmatter |-> <<>>, body |-> content]
  ELSE [frontmatter |-> parseYAMLSafely(match.yamlContent),
        body |-> match.bodyContent]

\* frontmatter[name] on a plain object: an own entry, else the value
\* inherited under a key of Object.prototype (truthy; its .value and
\* .optional are undefined), else undefined.  A property that is undefined
\* where a flag is expected is a field the record does not have.
FrontmatterGet(frontmatter, name) ==
  IF name \in DOMAIN frontmatter
  THEN [truthy |-> TRUE, value |-> frontmatter[name].value,
        optional |-> frontmatter[name].optional]
  ELSE IF name \in ObjectPrototypeKeys
  THEN [truthy |-> TRUE, value |-> Undefined]
  ELSE [truthy |-> FALSE, value |-> Undefined]

\* isOptional || frontmatterEntry.optional: the flag as a sequence of one
\* element, the empty sequence when it is undefined (the entry has no flag).
OptionalFlag(isOptional, frontmatterEntry) ==
  IF isOptional THEN << TRUE >>
  ELSE IF "optional" \in DOMAIN frontmatterEntry
  THEN << frontmatterEntry.optional >>
  ELSE <<>>

\* The Placeholder of a plain marker; optional: undefined is no field.
PlaceholderNode(name, description, start, end, flag) ==
  IF flag = <<>>
  THEN [type |-> "placeholder", name |-> name, description |-> description,
        start |-> start, end |-> end]
  ELSE [type |-> "placeholder", name |-> name, description |-> description,
        start |-> start, end |-> end, optional |-> flag[1]]

\* node.optional where a condition is expected: undefined counts as false.
IsOptional(node) == "optional" \in DOMAIN node /\ node.optional

\* frontmatter[name] = entry
FrontmatterSet(frontmatter, name, entry) ==
  [k \in DOMAIN frontmatter \cup {name} |->
     IF k = name THEN entry ELSE frontmatter[k]]


(***************************************************************************)
(* AST nodes and the tokenizer (buildASTFromBody).                         *)
(***************************************************************************)
TextNode(text) == [type |-> "text", text |-> text]

BlockNode(variable, content) ==
  [type |-> "block", variable |-> variable, content |-> content]

\* blockStack = [{ content: [] }]
RootStack == << [variable |-> Undefined, content |-> <<>>] >>

\* currentContext.content.push(node), currentContext the top frame
PushTop(blockStack, node) ==
  [blockStack EXCEPT ![Len(blockStack)].content = Append(@, node)]

\* seenVariables.has(name); seenVariables is kept in insertion order
SeenHas(seenVariables, name) ==
  \E i \in 1 .. Len(seenVariables) : seenVariables[i].name = name

\* Mutant of AddPrecedingText: the slice starts one character late.
AddPrecedingTextOffByOne(blockStack, body, lastIndex, m) ==
  LET precedingText == Slice(body, lastIndex + 2, m.index - 1) IN
  IF precedingText # <<>> THEN PushTop(blockStack, TextNode(precedingText))
  ELSE blockStack

\* The text before the match goes to the top frame when it is not empty.
AddPrecedingText(blockStack, body, lastIndex, m) ==
  LET precedingText == Slice(body, lastIndex + 1, m.index - 1) IN
  IF precedingText # <<>> THEN PushTop(blockStack, TextNode(precedingText))
  ELSE blockStack

ConditionalDescription(name) == <<"Conditional block for ">> \o name

\* Mutant of handleBlockStart: a block start with an empty name opens a scope
\* too.
handleBlockStartAnyName(st, fullMatch, trimmedName) ==
  [st EXCEPT
     !.frontmatter =
        IF ~FrontmatterGet(@, trimmedName).truthy
        THEN FrontmatterSet(@, trimmedName,
               [value |-> ConditionalDescription(trimmedName),
                optional |-> TRUE])
        ELSE @,
     !.blockStack =
        Append(@, [variable |-> trimmedName, content |-> <<>>])]

\* handleBlockStart; st is [frontmatter, blockStack, seenVariables]
handleBlockStart(st, fullMatch, trimmedName) ==
  IF trimmedName = <<>>
  THEN [st EXCEPT !.blockStack = PushTop(@, TextNode(fullMatch))]
  ELSE [st EXCEPT
          !.frontmatter =
             IF ~FrontmatterGet(@, trimmedName).truthy
             THEN FrontmatterSet(@, trimmedName,
                    [value |-> ConditionalDescription(trimmedName),
                     optional |-> TRUE])
             ELSE @,
          !.blockStack =
             Append(@, [variable |-> trimmedName, content |-> <<>>])]

\* Mutant of handleBlockEnd: the variable of a closed block is put first in
\* the variable list.
handleBlockEndRegistersFirst(st, fullMatch, trimmedName) ==
  LET n == Len(st.blockStack) IN
  IF n <= 1
  THEN [st EXCEPT !.blockStack = PushTop(@, TextNode(fullMatch))]
  ELSE LET closedBlock == st.blockStack[n] IN
       IF \/ closedBlock.variable \in {Undefined, <<>>}
          \/ (trimmedName # <<>> /\ trimmedName # closedBlock.variable)
       THEN [st EXCEPT !.blockStack = PushTop(@, TextNode(fullMatch))]
       ELSE LET popped == SubSeq(st.blockStack, 1, n - 1)
                block == BlockNode(closedBlock.variable, closedBlock.content)
                placeholder ==
                  [type |-> "placeholder", name |-> closedBlock.variable,
                   description |->
                     FrontmatterGet(st.frontmatter, closedBlock.variable).value,
                   optional |-> TRUE]
            IN [st EXCEPT
                  !.blockStack = PushTop(popped, block),
                  !.seenVariables =
                     IF ~SeenHas(@, closedBlock.variable)
                     THEN << placeholder >> \o @ ELSE @]

\* Mutant of handleBlockEnd: the block is appended to the root frame, not to
\* the frame below the closed one.
handleBlockEndToRoot(st, fullMatch, trimmedName) ==
  LET n == Len(st.blockStack) IN
  IF n <= 1
  THEN [st EXCEPT !.blockStack = PushTop(@, TextNode(fullMatch))]
  ELSE LET closedBlock == st.blockStack[n] IN
       IF \/ closedBlock.variable \in {Undefined, <<>>}
          \/ (trimmedName # <<>> /\ trimmedName # closedBlock.variable)
       THEN [st EXCEPT !.blockStack = PushTop(@, TextNode(fullMatch))]
       ELSE LET popped == SubSeq(st.blockStack, 1, n - 1)
                block == BlockNode(closedBlock.variable, closedBlock.content)
                placeholder ==
                  [type |-> "placeholder", name |-> closedBlock.variable,
                   description |->
                     FrontmatterGet(st.frontmatter, closedBlock.variable).value,
                   optional |-> TRUE]
            IN [st EXCEPT
                  !.blockStack = [popped EXCEPT ![1].content = Append(@, block)],
                  !.seenVariables =
                     IF ~SeenHas(@, closedBlock.variable)
                     THEN Append(@, placeholder) ELSE @]

\* Mutant of handleBlockEnd: an end marker with no scope open is dropped.
handleBlockEndDropsStray(st, fullMatch, trimmedName) ==
  LET n == Len(st.blockStack) IN
  IF n <= 1
  THEN st
  ELSE LET closedBlock == st.blockStack[n] IN
       IF \/ closedBlock.variable \in {Undefined, <<>>}
          \/ (trimmedName # <<>> /\ trimmedName # closedBlock.variable)
       THEN [st EXCEPT !.blockStack = PushTop(@, TextNode(fullMatch))]
       ELSE LET popped == SubSeq(st.blockStack, 1, n - 1)
                block == BlockNode(closedBlock.variable, closedBlock.content)
                placeholder ==
                  [type |-> "placeholder", name |-> closedBlock.variable,
                   description |->
                     FrontmatterGet(st.frontmatter, closedBlock.variable).value,
                   optional |-> TRUE]
            IN [st EXCEPT
                  !.blockStack = PushTop(popped, block),
                  !.seenVariables =
                     IF ~SeenHas(@, closedBlock.variable)
                     THEN Append(@, placeholder) ELSE @]

\* Mutant of handleBlockEnd: the variable of the closed block is not
\* registered.
handleBlockEndNoRegister(st, fullMatch, trimmedName) ==
  LET n == Len(st.blockStack) IN
  IF n <= 1
  THEN [st EXCEPT !.blockStack = PushTop(@, TextNode(fullMatch))]
  ELSE LET closedBlock == st.blockStack[n] IN
       IF \/ closedBlock.variable \in {Undefined, <<>>}
          \/ (trimmedName # <<>> /\ trimmedName # closedBlock.variable)
       THEN [st EXCEPT !.blockStack = PushTop(@, TextNode(fullMatch))]
       ELSE LET popped == SubSeq(st.blockStack, 1, n - 1)
                block == BlockNode(closedBlock.variable, closedBlock.content)
            IN [st EXCEPT !.blockStack = PushTop(popped, block)]

\* Mutant of handleBlockEnd: the name of the end marker is not compared, any
\* end closes the innermost scope.
handleBlockEndAnyName(st, fullMatch, trimmedName) ==
  LET n == Len(st.blockStack) IN
  IF n <= 1
  THEN [st EXCEPT !.blockStack = PushTop(@, TextNode(fullMatch))]
  ELSE LET closedBlock == st.blockStack[n] IN
       IF closedBlock.variable \in {Undefined, <<>>}
       THEN [st EXCEPT !.blockStack = PushTop(@, TextNode(fullMatch))]
       ELSE LET popped == SubSeq(st.blockStack, 1, n - 1)
                block == BlockNode(closedBlock.variable, closedBlock.content)
                placeholder ==
                  [type |-> "placeholder", name |-> closedBlock.variable,
                   description |->
                     FrontmatterGet(st.frontmatter, closedBlock.variable).value,
                   optional |-> TRUE]
            IN [st EXCEPT
                  !.blockStack = PushTop(popped, block),
                  !.seenVariables =
                     IF ~SeenHas(@, closedBlock.variable)
                     THEN Append(@, placeholder) ELSE @]

\* handleBlockEnd
handleBlockEnd(st, fullMatch, trimmedName) ==
  LET n == Len(st.blockStack) IN
  IF n <= 1
  THEN [st EXCEPT !.blockStack = PushTop(@, TextNode(fullMatch))]
  ELSE LET closedBlock == st.blockStack[n] IN
       IF \/ closedBlock.variable \in {Undefined, <<>>}
          \/ (trimmedName # <<>> /\ trimmedName # closedBlock.variable)
       THEN [st EXCEPT !.blockStack = PushTop(@, TextNode(fullMatch))]
       ELSE LET popped == SubSeq(st.blockStack, 1, n - 1)
                block == BlockNode(closedBlock.variable, closedBlock.content)
                placeholder ==
                  [type |-> "placeholder", name |-> closedBlock.variable,
                   description |->
                     FrontmatterGet(st.frontmatter, closedBlock.variable).value,
                   optional |-> TRUE]
            IN [st EXCEPT
                  !.blockStack = PushTop(popped, block),
                  !.seenVariables =
                     IF ~SeenHas(@, closedBlock.variable)
                     THEN Append(@, placeholder) ELSE @]

\* Mutant of handlePlaceholder: every occurrence is registered as a variable.
handlePlaceholderNoDedup(st, fullMatch, trimmedName, m) ==
  LET isOptional == m.suffix # ""
      frontmatterEntry == FrontmatterGet(st.frontmatter, trimmedName)
  IN IF trimmedName = <<>> \/ ~frontmatterEntry.truthy
     THEN [st EXCEPT !.blockStack = PushTop(@, TextNode(fullMatch))]
     ELSE LET placeholder ==
                PlaceholderNode(trimmedName, frontmatterEntry.value,
                                m.index - 1, m.end,
                                OptionalFlag(isOptional, frontmatterEntry))
          IN [st EXCEPT
                !.blockStack = PushTop(@, placeholder),
                !.seenVariables = Append(@, placeholder)]

\* Mutant of handlePlaceholder: the node keeps the name as matched, untrimmed.
handlePlaceholderRawName(st, fullMatch, trimmedName, m) ==
  LET isOptional == m.suffix # ""
      frontmatterEntry == FrontmatterGet(st.frontmatter, trimmedName)
  IN IF trimmedName = <<>> \/ ~frontmatterEntry.truthy
     THEN [st EXCEPT !.blockStack = PushTop(@, TextNode(fullMatch))]
     ELSE LET placeholder ==
                PlaceholderNode(m.name, frontmatterEntry.value,
                                m.index - 1, m.end,
                                OptionalFlag(isOptional, frontmatterEntry))
          IN [st EXCEPT
                !.blockStack = PushTop(@, placeholder),
                !.seenVariables =
                   IF ~SeenHas(@, trimmedName)
                   THEN Append(@, placeholder) ELSE @]

\* handlePlaceholder; start and end are the 0-based offsets of the source
handlePlaceholder(st, fullMatch, trimmedName, m) ==
  LET isOptional == m.suffix # ""
      frontmatterEntry == FrontmatterGet(st.frontmatter, trimmedName)
  IN IF trimmedName = <<>> \/ ~frontmatterEntry.truthy
     THEN [st EXCEPT !.blockStack = PushTop(@, TextNode(fullMatch))]
     ELSE LET placeholder ==
                PlaceholderNode(trimmedName, frontmatterEntry.value,
                                m.index - 1, m.end,
                                OptionalFlag(isOptional, frontmatterEntry))
          IN [st EXCEPT
                !.blockStack = PushTop(@, placeholder),
                !.seenVariables =
                   IF ~SeenHas(@, trimmedName)
                   THEN Append(@, placeholder) ELSE @]

\* One turn of the loop over placeholderMatches, for the match m.
ProcessMatch(st, body, m) ==
  LET withText ==
        [frontmatter |-> st.frontmatter,
         blockStack |-> AddPrecedingText(st.blockStack, body, st.lastIndex, m),
         seenVariables |-> st.seenVariables,
         lastIndex |-> st.lastIndex]
      fullMatch == FullMatch(body, m)
      trimmedName == Trim(m.name)
      handled ==
        IF m.prefix = "?" THEN handleBlockStart(withText, fullMatch, trimmedName)
        ELSE IF m.prefix = "/" THEN handleBlockEnd(withText, fullMatch, trimmedName)
        ELSE handlePlaceholder(withText, fullMatch, trimmedName, m)
  IN [handled EXCEPT !.lastIndex = m.end]

\* `#{?${block.variable}}`
BlockStartMarker(variable) == <<"#", "{", "?">> \o variable \o <<"}">>

\* blockStack.slice(1).reverse().flatMap(...) of the unclosed-block recovery
RECURSIVE UnclosedContent(_, _)
UnclosedContent(blockStack, i) ==
  IF i < 2 THEN <<>>
  ELSE (IF blockStack[i].variable \in {Undefined, <<>>} THEN <<>>
        ELSE << TextNode(BlockStartMarker(blockStack[i].variable)) >>)
       \o blockStack[i].content
       \o UnclosedContent(blockStack, i - 1)

\* Mutant of FinishAST: the unclosed frames follow the root content.
FinishASTRootFirst(st, body) ==
  LET remainingText == Slice(body, st.lastIndex + 1, Len(body))
      blockStack ==
        IF remainingText # <<>>
        THEN PushTop(st.blockStack, TextNode(remainingText))
        ELSE st.blockStack
      unclosedCount == Len(blockStack) - 1
  IN [ast |-> IF unclosedCount > 0
              THEN blockStack[1].content
                   \o UnclosedContent(blockStack, Len(blockStack))
              ELSE blockStack[1].content,
      variables |-> st.seenVariables,
      warned |-> unclosedCount > 0]

\* Lines 161-193: the remaining text, then the AST and the variable list.
FinishAST(st, body) ==
  LET remainingText == Slice(body, st.lastIndex + 1, Len(body))
      blockStack ==
        IF remainingText # <<>>
        THEN PushTop(st.blockStack, TextNode(remainingText))
        ELSE st.blockStack
      unclosedCount == Len(blockStack) - 1
  IN [ast |-> IF unclosedCount > 0
              THEN UnclosedContent(blockStack, Len(blockStack))
                   \o blockStack[1].content
              ELSE blockStack[1].content,
      variables |-> st.seenVariables,
      warned |-> unclosedCount > 0]

\* Mutant of SchemaDescription: the description is not trimmed before the
\* test.
SchemaDescriptionNoTrim(variable) ==
  IF variable.description = Undefined \/ variable.description = <<>>
  THEN <<"Variable: ">> \o variable.name
  ELSE variable.description

\* buildJSONSchema
SchemaDescription(variable) ==
  IF variable.description = Undefined \/ Trim(variable.description) = <<>>
  THEN <<"Variable: ">> \o variable.name
  ELSE variable.description

RECURSIVE SchemaRequired(_)
SchemaRequired(variables) ==
  IF variables = <<>> THEN <<>>
  ELSE (IF ~IsOptional(Head(variables)) THEN << Head(variables).name >> ELSE <<>>)
       \o SchemaRequired(Tail(variables))

\* acc[variable.name] = {...} creates an own property for every name but
\* __proto__, where it runs the inherited setter instead.
buildJSONSchema(variables) ==
  [type |-> "object",
   properties |->
     [name \in { variables[i].name : i \in 1 .. Len(variables) } \ { Proto } |->
        LET v == variables[Max({ i \in 1 .. Len(variables) :
                                   variables[i].name = name })]
        IN [type |-> "string", description |-> SchemaDescription(v)]],
   required |-> SchemaRequired(variables)]


\* buildASTFromBody as one function: the loop over all matches, then the end.
RECURSIVE ScanFrom(_, _, _, _)
ScanFrom(st, body, placeholderMatches, i) ==
  IF i > Len(placeholderMatches) THEN st
  ELSE ScanFrom(ProcessMatch(st, body, placeholderMatches[i]), body,
                placeholderMatches, i + 1)

ScanStart(frontmatter) ==
  [frontmatter |-> frontmatter, blockStack |-> RootStack,
   seenVariables |-> <<>>, lastIndex |-> 0]

buildASTFromBody(body, frontmatter) ==
  FinishAST(ScanFrom(ScanStart(frontmatter), body, MatchAll(body, 1), 1), body)

ParsedTemplate(content, built) ==
  [ast |-> built.ast, vars |-> built.variables, template |-> content,
   inputSchema |-> buildJSONSchema(built.variables)]

parseTemplate(content) ==
  LET fm == extractFrontmatter(content) IN
  ParsedTemplate(content, buildASTFromBody(fm.body, fm.frontmatter))

(***************************************************************************)
(* renderTemplate.                                                         *)
(***************************************************************************)
\* variables[name] on the plain object of supplied values.
VariablesGet(variables, name) ==
  IF name \in DOMAIN variables THEN [kind |-> "string", text |-> variables[name]]
  ELSE IF name = Proto THEN [kind |-> "object", text |-> ObjectText]
  ELSE IF name \in ObjectPrototypeKeys THEN [kind |-> "function", text |-> FunctionText]
  ELSE [kind |-> "undefined", text |-> Undefined]

\* `#{${node.name}}`
PlaceholderMarker(name) == <<"#", "{">> \o name \o <<"}">>

Rendered(text) == [threw |-> FALSE, text |-> text]
TypeError == [threw |-> TRUE, text |-> <<>>]

\* Mutant of RenderPlaceholder: the fallback is the empty text.
RenderPlaceholderEmptyFallback(node, variables) ==
  LET substitutedValue == VariablesGet(variables, node.name) IN
  IF substitutedValue.kind = "undefined" THEN Rendered(<<>>)
  ELSE Rendered(substitutedValue.text)

\* Lines 308-316: the placeholder branch of renderNode.
RenderPlaceholder(node, variables) ==
  LET substitutedValue == VariablesGet(variables, node.name) IN
  IF IsOptional(node) /\ substitutedValue.kind = "string" /\ substitutedValue.text = <<>>
  THEN Rendered(<<>>)
  ELSE IF substitutedValue.kind = "undefined"
  THEN Rendered(PlaceholderMarker(node.name))
  ELSE Rendered(substitutedValue.text)

\* Lines 299-303: what the test on the control value of a block decides;
\* .trim() of a value that is no string throws.
BlockDecision(variables, variable) ==
  LET controlValue == VariablesGet(variables, variable) IN
  IF controlValue.kind = "undefined" THEN "skip"
  ELSE IF controlValue.kind \in {"function", "object"} THEN "throw"
  ELSE IF controlValue.text = <<>> \/ Trim(controlValue.text) = <<>> THEN "skip"
  ELSE "render"

RECURSIVE RenderNode(_, _), RenderNodes(_, _)
\* renderNode
RenderNode(node, variables) ==
  IF node.type = "text" THEN Rendered(node.text)
  ELSE IF node.type = "block"
  THEN LET decision == BlockDecision(variables, node.variable) IN
       IF decision = "skip" THEN Rendered(<<>>)
       ELSE IF decision = "throw" THEN TypeError
       ELSE RenderNodes(node.content, variables)
  ELSE RenderPlaceholder(node, variables)

\* Mutant of RenderNodes: join in reverse order.
RECURSIVE RenderNodesReversed(_, _)
RenderNodesReversed(nodes, variables) ==
  IF nodes = <<>> THEN Rendered(<<>>)
  ELSE LET first == RenderNode(Head(nodes), variables) IN
       IF first.threw THEN TypeError
       ELSE LET rest == RenderNodesReversed(Tail(nodes), variables) IN
            IF rest.threw THEN TypeError
            ELSE Rendered(rest.text \o first.text)

\* nodes.map(renderNode).join('')
RenderNodes(nodes, variables) ==
  IF nodes = <<>> THEN Rendered(<<>>)
  ELSE LET first == RenderNode(Head(nodes), variables) IN
       IF first.threw THEN TypeError
       ELSE LET rest == RenderNodes(Tail(nodes), variables) IN
            IF rest.threw THEN TypeError
            ELSE Rendered(first.text \o rest.text)

renderTemplate(parsed, variables) == RenderNodes(parsed.ast, variables)

(***************************************************************************)
(* Inputs.                                                                 *)
(***************************************************************************)
\* The pieces bodies are built from: text, the three marker forms with
\* declared, undeclared, inherited and empty names, and an opening that is
\* never closed.
BodyPieces ==
  { <<"x">>,
    <<"#", "{", "a", "}">>,
    <<"x", "#", "{", "a", "}">>,
    <<"#", "{", " ", "a", "?", "}">>,
    <<"#", "{">> \o Ctor \o <<"}">>,
    <<"#", "{", "}">>,
    <<"#", "{">>,
    <<"#", "{", "?", "a", "}">>,
    <<"#", "{", "?", "b", "}">>,
    <<"#", "{", "?">> \o Ctor \o <<"}">>,
    <<"#", "{", "?", "}">>,
    <<"#", "{", "/", "a", "}">>,
    <<"#", "{", "/", "}">> }

Bodies ==
  { Flatten(ps) : ps \in UNION { [1 .. n -> BodyPieces] : n \in 0 .. MaxPieces } }

Fence == <<"-", "-", "-", "\n">>

Header(yaml) == Fence \o yaml \o <<"\n">> \o Fence

\* The backquote character, which a string of the model cannot hold, and the
\* fence of a code block, three of them.
Backquote == "bq"
CodeFence == << Backquote, Backquote, Backquote >>

\* Bodies outside the pieces: a declared name between code fences,
\* __proto__ as a plain marker and as the control variable of a block,
\* plain markers of b before those of a, a block nested in a block, and
\* block markers whose name is written with blanks or is blank only.
SpecialBodies ==
  { CodeFence \o <<"#", "{", "a", "}">> \o CodeFence,
    <<"#", "{">> \o Proto \o <<"}">>,
    <<"#", "{", "?">> \o Proto \o <<"}", "x", "#", "{", "/", "}">>,
    <<"#", "{", "b", "}", "#", "{", "a", "}">>,
    <<"#", "{", "b", "}", "#", "{", "b", "?", "}", "#", "{", "a", "}">>,
    <<"#", "{", "?", "a", "}", "x", "#", "{", "?", "b", "}", "#", "{", "a", "}",
      "#", "{", "/", "b", "}", "x", "#", "{", "/", "}">>,
    <<"#", "{", "?", " ", "a", " ", "}", "x", "#", "{", "/", " ", "a", "}">>,
    <<"#", "{", "?", " ", "}", "x", "#", "{", "/", "}">> }

\* No header, a required a, an optional a, a and an optional b with an empty
\* description.
Headers == { <<>>, Header(YamlA), Header(YamlAOpt), Header(YamlAB) }

\* The documents: every header with every body, and before each single
\* piece a header that YAML cannot parse and one that declares a with a
\* description of one blank.
Contents ==
  { h \o b : h \in Headers, b \in Bodies \cup SpecialBodies }
    \cup { Header(YamlBad) \o b : b \in BodyPieces \cup { <<>> } }
    \cup { Header(YamlBlank) \o b : b \in BodyPieces }

\* The supplied values: a empty, blank or a text, b a text, each or neither.
ValueTexts(name) ==
  IF name = <<"a">> THEN { <<>>, <<" ">>, <<"V">> } ELSE { <<"V">> }
ValueNames == { <<"a">>, <<"b">> }
ValueMaps ==
  UNION { { f \in [D -> { <<>>, <<" ">>, <<"V">> }] :
              \A n \in D : f[n] \in ValueTexts(n) } : D \in SUBSET ValueNames }

(***************************************************************************)
(* The state machine: one compile, step by step, then any renders.         *)
(***************************************************************************)
VARIABLES
  content,            \* the document text handed to parseTemplate
  phase,              \* "start", "scan" (inside the loop), "parsed"
  body,               \* the body extractFrontmatter returned
  frontmatter,        \* the header map, which block starts may extend
  placeholderMatches, \* the matches of PLACEHOLDER_PATTERN in body
  matchIdx,           \* the match the loop is at
  blockStack,
  seenVariables,
  lastIndex,
  parsed,             \* the ParsedTemplate returned
  variables,          \* the values of the last render
  output              \* the result of the last render

parserVars ==
  << content, phase, body, frontmatter, placeholderMatches, matchIdx,
     blockStack, seenVariables, lastIndex, parsed, variables, output >>

(***************************************************************************)
(* The command server (createCommandServer) and its file watcher           *)
(* (createCommandWatcher).                                                 *)
(***************************************************************************)
VARIABLES
  files,      \* the watched directories: file path -> text, NoFile if absent
  tools,      \* the Map of registered tools, in insertion order
  watcher,    \* the watcher variable: 0 for null, else a chokidar instance
  open,       \* the chokidar instances created and not closed
  created,    \* how many chokidar instances start() has created
  call,       \* the start() or stop() call in progress: "none", "start", "stop"
  stopped,    \* the call that resolved last is a stop()
  connected,  \* server.connect(transport) has been done
  reading,    \* the handleFileChange calls waiting for fs.readFile
  handled,    \* the change the registry handler has just been called with
  response    \* the outcome of the request being answered

serverVars ==
  << files, tools, watcher, open, created, call, stopped, connected,
     reading, handled, response >>

NotYet == [none |-> TRUE]

(***************************************************************************)
(* The renderTemplate calls of several callers on one compiled template,   *)
(* node by node.                                                           *)
(***************************************************************************)
\* The callers that render the compiled template at the same time.
MaxCallers == 2
Callers == 1 .. MaxCallers

VARIABLES
  running     \* caller -> its renderTemplate call in progress, NotYet if none

renderVars == << running >>

(***************************************************************************)
(* The parseTemplate calls of several callers, each on its own document,   *)
(* one turn of the tokenizer loop at a time.  The header maps are objects: *)
(* a call holds a reference to the map extractFrontmatter made for it.     *)
(***************************************************************************)
\* The callers that compile a document at the same time.
MaxCompilers == 2
Compilers == 1 .. MaxCompilers

\* The header-map objects that can be alive at a time: one for each call.
HeaderRefs == 1 .. MaxCompilers

VARIABLES
  compiling,  \* caller -> its parseTemplate call in progress, NotYet if none
  headerMaps  \* reference -> the header map object it points to

compilerVars == << compiling, headerMaps >>

(***************************************************************************)
(* The handlers of a watcher (onFileChange) and one notifyHandlers call,   *)
(* handler by handler.                                                     *)
(***************************************************************************)
\* onFileChange registers at most MaxHandlers handlers.
MaxHandlers == 3

VARIABLES
  handlers,   \* the Set of handlers in insertion order, each by what it does
  notifying   \* the notifyHandlers call in progress, NotYet if none

notifyVars == << handlers, notifying >>

vars == << parserVars, serverVars, renderVars, compilerVars, notifyVars >>

\* No handler is registered and no notification is in progress.
NotifyIdle == handlers = <<>> /\ notifying = NotYet

\* No caller is in a renderTemplate call.
RenderIdle == running = [c \in Callers |-> NotYet]

\* No caller is in a parseTemplate call and no header map is alive.
CompilersIdle ==
  /\ compiling = [c \in Compilers |-> NotYet]
  /\ headerMaps = [r \in HeaderRefs |-> <<>>]

\* A path that holds no file.
NoFile == <<"<no file>">>

\* The watched files: t.md in each of two watched directories.
FilePaths ==
  { [dir |-> "d1", name |-> "t"],
    [dir |-> "d2", name |-> "t"] }

\* The state createCommandServer returns in, over an empty directory tree.
ServerIdle ==
  /\ files = [p \in FilePaths |-> NoFile]
  /\ tools = <<>>
  /\ watcher = 0
  /\ open = {}
  /\ created = 0
  /\ call = "none"
  /\ stopped = FALSE
  /\ connected = FALSE
  /\ reading = {}
  /\ handled = NotYet
  /\ response = NotYet

Init ==
  /\ ServerIdle
  /\ RenderIdle
  /\ CompilersIdle
  /\ NotifyIdle
  /\ content \in Contents
  /\ phase = "start"
  /\ body = <<>>
  /\ frontmatter = <<>>
  /\ placeholderMatches = <<>>
  /\ matchIdx = 1
  /\ blockStack = RootStack
  /\ seenVariables = <<>>
  /\ lastIndex = 0
  /\ parsed = NotYet
  /\ variables = NotYet
  /\ output = NotYet

\* parseTemplate up to the loop: extractFrontmatter, the state of
\* buildASTFromBody before the first match.
BeginParse ==
  /\ phase = "start"
  /\ LET fm == extractFrontmatter(content) IN
       /\ body' = fm.body
       /\ frontmatter' = fm.frontmatter
       /\ placeholderMatches' = MatchAll(fm.body, 1)
  /\ phase' = "scan"
  /\ blockStack' = RootStack
  /\ seenVariables' = <<>>
  /\ lastIndex' = 0
  /\ matchIdx' = 1
  /\ UNCHANGED << content, parsed, variables, output >>
  /\ UNCHANGED << serverVars, renderVars, compilerVars, notifyVars >>

ScanState ==
  [frontmatter |-> frontmatter, blockStack |-> blockStack,
   seenVariables |-> seenVariables, lastIndex |-> lastIndex]

\* One turn of the loop, for a match with the given prefix.
LoopTurn(prefix) ==
  /\ phase = "scan"
  /\ matchIdx <= Len(placeholderMatches)
  /\ placeholderMatches[matchIdx].prefix = prefix
  /\ LET st == ProcessMatch(ScanState, body, placeholderMatches[matchIdx]) IN
       /\ frontmatter' = st.frontmatter
       /\ blockStack' = st.blockStack
       /\ seenVariables' = st.seenVariables
       /\ lastIndex' = st.lastIndex
  /\ matchIdx' = matchIdx + 1
  /\ UNCHANGED << content, phase, body, placeholderMatches, parsed, variables, output >>
  /\ UNCHANGED << serverVars, renderVars, compilerVars, notifyVars >>

BlockStart == LoopTurn("?")
BlockEnd == LoopTurn("/")
PlainPlaceholder == LoopTurn("")

\* After the loop: remaining text, unclosed blocks, schema, return.
FinishParse ==
  /\ phase = "scan"
  /\ matchIdx > Len(placeholderMatches)
  /\ parsed' = ParsedTemplate(content, FinishAST(ScanState, body))
  /\ phase' = "parsed"
  /\ UNCHANGED << content, body, frontmatter, placeholderMatches, matchIdx,
                  blockStack, seenVariables, lastIndex, variables, output >>
  /\ UNCHANGED << serverVars, renderVars, compilerVars, notifyVars >>

\* renderTemplate(parsed, values), any number of times on one template.
Render ==
  /\ phase = "parsed"
  /\ output = NotYet
  /\ \E values \in ValueMaps :
       /\ variables' = values
       /\ output' = renderTemplate(parsed, values)
  /\ UNCHANGED << content, phase, body, frontmatter, placeholderMatches, matchIdx,
                  blockStack, seenVariables, lastIndex, parsed >>
  /\ UNCHANGED << serverVars, renderVars, compilerVars, notifyVars >>

\* The call has returned and its result is consumed; the compiled template
\* stays for the next render.
RenderReturn ==
  /\ phase = "parsed"
  /\ output # NotYet
  /\ variables' = NotYet
  /\ output' = NotYet
  /\ UNCHANGED << content, phase, body, frontmatter, placeholderMatches, matchIdx,
                  blockStack, seenVariables, lastIndex, parsed >>
  /\ UNCHANGED << serverVars, renderVars, compilerVars, notifyVars >>

Next ==
  \/ BeginParse
  \/ BlockStart
  \/ BlockEnd
  \/ PlainPlaceholder
  \/ FinishParse
  \/ Render
  \/ RenderReturn

Spec == Init /\ [][Next]_vars

\* The compile alone: parseTemplate from its call to its return.
CompileNext ==
  \/ BeginParse
  \/ BlockStart
  \/ BlockEnd
  \/ PlainPlaceholder
  \/ FinishParse

CompileSpec == Init /\ [][CompileNext]_vars

(***************************************************************************)
(* The tool registry and the request handlers of the server.               *)
(***************************************************************************)
\* path.basename(filePath, '.md')
basename(filePath) == filePath.name

\* content.split('\n'), from position i on
RECURSIVE SplitLines(_, _)
SplitLines(text, i) ==
  LET newline == IndexFrom(text, "\n", i) IN
  IF newline > Len(text) THEN << Slice(text, i, Len(text)) >>
  ELSE << Slice(text, i, newline - 1) >> \o SplitLines(text, newline + 1)

\* .slice(0, 100) of the description
DescriptionMax == 100

\* extractDescription: the first line that is not blank and starts with
\* neither # nor $, trimmed and cut, else 'Command'.
RECURSIVE FindDescription(_, _)
FindDescription(lines, i) ==
  IF i > Len(lines) THEN <<"Command">>
  ELSE LET trimmed == Trim(lines[i]) IN
       IF trimmed # <<>> /\ trimmed[1] \notin {"#", "$"}
       THEN Slice(trimmed, 1, Min({ Len(trimmed), DescriptionMax }))
       ELSE FindDescription(lines, i + 1)

\* Mutant of extractDescription: the lines of the header are left out.
extractDescriptionOfBody(text) ==
  FindDescription(SplitLines(extractFrontmatter(text).body, 1), 1)

extractDescription(text) == FindDescription(SplitLines(text, 1), 1)

\* The Map of tools as the sequence of its values in insertion order.
ToolIndex(registry, name) ==
  IF \E i \in 1 .. Len(registry) : registry[i].name = name
  THEN CHOOSE i \in 1 .. Len(registry) : registry[i].name = name
  ELSE 0

\* tools.has(name)
ToolsHas(registry, name) == ToolIndex(registry, name) # 0

\* tools.get(name), for a name the Map has
ToolsGet(registry, name) == registry[ToolIndex(registry, name)]

\* tools.set(name, tool): a new key goes last, a known key keeps its place.
ToolsSet(registry, name, tool) ==
  IF ToolsHas(registry, name)
  THEN [registry EXCEPT ![ToolIndex(registry, name)] = tool]
  ELSE Append(registry, tool)

\* tools.delete(name)
ToolsDelete(registry, name) ==
  LET Keep(tool) == tool.name # name IN SelectSeq(registry, Keep)

\* A change as notifyHandlers passes it on.
FileChangeEvent(event, filePath, text) ==
  [event |-> event, filePath |-> filePath, content |-> text]

\* Mutant of onFileChange: an unlink leaves the registry as it is.
onFileChangeKeepsOnUnlink(registry, change) ==
  LET toolName == basename(change.filePath) IN
  IF change.event = "unlink" THEN registry
  ELSE IF change.content \in {Undefined, <<>>} THEN registry
  ELSE ToolsSet(registry, toolName,
                [name |-> toolName,
                 description |-> extractDescription(change.content),
                 parsed |-> parseTemplate(change.content)])

\* The handler the server registers with watcher.onFileChange; !content is
\* true of undefined and of the empty text.
onFileChange(registry, change) ==
  LET toolName == basename(change.filePath) IN
  IF change.event = "unlink" THEN ToolsDelete(registry, toolName)
  ELSE IF change.content \in {Undefined, <<>>} THEN registry
  ELSE ToolsSet(registry, toolName,
                [name |-> toolName,
                 description |-> extractDescription(change.content),
                 parsed |-> parseTemplate(change.content)])

\* v in args, on the plain object of the arguments
ArgsHas(args, name) == name \in DOMAIN args \/ name \in ObjectPrototypeKeys

\* names.join(', ')
RECURSIVE JoinNames(_)
JoinNames(names) ==
  IF names = <<>> THEN <<>>
  ELSE IF Len(names) = 1 THEN names[1]
  ELSE names[1] \o <<",", " ">> \o JoinNames(Tail(names))

\* vars.filter(v => !v.optional).map(v => v.name).filter(v => !(v in args))
RECURSIVE MissingArguments(_, _)
MissingArguments(variableList, args) ==
  IF variableList = <<>> THEN <<>>
  ELSE (IF ~IsOptional(Head(variableList)) /\ ~ArgsHas(args, Head(variableList).name)
        THEN << Head(variableList).name >> ELSE <<>>)
       \o MissingArguments(Tail(variableList), args)

\* What a request handler ends with: a result or a thrown Error.
Returned(result) == [threw |-> FALSE, result |-> result]
Thrown(message) == [threw |-> TRUE, message |-> message]

\* The TypeError renderTemplate lets through.
RenderError == Thrown(<<"TypeError">>)

\* The ListTools handler
ListTools(registry) ==
  Returned([i \in 1 .. Len(registry) |->
              [name |-> registry[i].name,
               description |-> registry[i].description,
               inputSchema |-> registry[i].parsed.inputSchema]])

\* The CallTool handler
CallTool(registry, name, args) ==
  IF ~ToolsHas(registry, name) THEN Thrown(<<"Tool not found: ", name>>)
  ELSE LET tool == ToolsGet(registry, name)
           missing == MissingArguments(tool.parsed.vars, args)
       IN IF Len(missing) # 0
          THEN Thrown(<<"Missing required arguments: ">> \o JoinNames(missing))
          ELSE LET result == renderTemplate(tool.parsed, args) IN
               IF result.threw THEN RenderError ELSE Returned(result.text)

\* The arguments of one prompt of ListPrompts
PromptArguments(variableList) ==
  [i \in 1 .. Len(variableList) |->
     [name |-> variableList[i].name,
      description |->
        IF variableList[i].description = Undefined
        THEN <<"Variable: ">> \o variableList[i].name
        ELSE variableList[i].description,
      required |-> ~IsOptional(variableList[i])]]

\* The ListPrompts handler
ListPrompts(registry) ==
  Returned([i \in 1 .. Len(registry) |->
              [name |-> registry[i].name,
               description |-> registry[i].description,
               arguments |-> PromptArguments(registry[i].parsed.vars)]])

\* The GetPrompt handler
GetPrompt(registry, name, args) ==
  IF ~ToolsHas(registry, name) THEN Thrown(<<"Prompt not found: ", name>>)
  ELSE LET tool == ToolsGet(registry, name)
           result == renderTemplate(tool.parsed, args)
       IN IF result.threw THEN RenderError ELSE Returned(result.text)


(***************************************************************************)
(* The server as a state machine: start() and stop() of the watcher, the   *)
(* files changing underneath, the reads in flight, and the requests.       *)
(***************************************************************************)
\* start() creates at most MaxStarts chokidar instances.
MaxStarts == 2

\* At most MaxReading handleFileChange calls wait for their read at a time.
MaxReading == 1

\* The texts a file can hold: nothing, a template with a required a and an
\* optional b, and a template whose one variable is an inherited key.
DocAB == Header(YamlAB) \o <<"#", "{", "a", "}", "#", "{", "b", "}">>
DocCtor == <<"#", "{">> \o Ctor \o <<"}">>
FileTexts == { <<>>, DocAB, DocCtor }

\* The names and the arguments of the requests.
RequestNames == { "t", "u" }
RequestArgs == { args \in ValueMaps : \A n \in DOMAIN args : args[n] = <<"V">> }

\* The parser is not stepped while the server runs: it is called as a
\* function by the registry handler.
ParserIdle ==
  /\ content = <<>>
  /\ phase = "start"
  /\ body = <<>>
  /\ frontmatter = <<>>
  /\ placeholderMatches = <<>>
  /\ matchIdx = 1
  /\ blockStack = RootStack
  /\ seenVariables = <<>>
  /\ lastIndex = 0
  /\ parsed = NotYet
  /\ variables = NotYet
  /\ output = NotYet

\* createCommandServer over directories that hold any files.
ServerInit ==
  /\ ParserIdle
  /\ RenderIdle
  /\ CompilersIdle
  /\ NotifyIdle
  /\ files \in [FilePaths -> FileTexts \cup { NoFile }]
  /\ tools = <<>>
  /\ watcher = 0
  /\ open = {}
  /\ created = 0
  /\ call = "none"
  /\ stopped = FALSE
  /\ connected = FALSE
  /\ reading = {}
  /\ handled = NotYet
  /\ response = NotYet

\* No handler has just run: the registry handler has returned to the
\* watcher and the answer of the last request is sent.
Quiet == response = NotYet /\ handled = NotYet

\* The orders in which the reads of the files in S can end.
Orders(S) ==
  { order \in [1 .. Cardinality(S) -> S] :
      \A i, j \in 1 .. Cardinality(S) : order[i] = order[j] => i = j }

\* notifyHandlers({ event: 'add', filePath, content }) for each loaded file
RECURSIVE LoadAll(_, _, _)
LoadAll(registry, order, i) ==
  IF i > Len(order) THEN registry
  ELSE LoadAll(onFileChange(registry,
                            FileChangeEvent("add", order[i], files[order[i]])),
               order, i + 1)

\* start(), up to the creation of the chokidar instance: the directories are
\* made, the files they hold are read and the handlers are told of each.
StartLoad ==
  /\ Quiet
  /\ call = "none"
  /\ created < MaxStarts
  /\ \E order \in Orders({ p \in FilePaths : files[p] # NoFile }) :
       /\ tools' = LoadAll(tools, order, 1)
       /\ handled' =
            IF Len(order) = 0 THEN handled
            ELSE FileChangeEvent("add", order[Len(order)], files[order[Len(order)]])
  /\ call' = "start"
  /\ UNCHANGED << files, watcher, open, created, stopped, connected, reading, response >>
  /\ UNCHANGED << parserVars, renderVars, compilerVars, notifyVars >>

\* start(), the rest: watcher = chokidar.watch(...) with its three listeners,
\* whatever watcher held before; then server.connect(transport).
StartWatch ==
  /\ Quiet
  /\ call = "start"
  /\ created' = created + 1
  /\ watcher' = created + 1
  /\ open' = open \cup { created + 1 }
  /\ call' = "none"
  /\ stopped' = FALSE
  /\ connected' = TRUE
  /\ UNCHANGED << files, tools, reading, handled, response >>
  /\ UNCHANGED << parserVars, renderVars, compilerVars, notifyVars >>

\* stop() with a watcher: watcher.close() is called and awaited.
StopClose ==
  /\ Quiet
  /\ call = "none"
  /\ watcher # 0
  /\ open' = open \ { watcher }
  /\ call' = "stop"
  /\ UNCHANGED << files, tools, watcher, created, stopped, connected, reading,
                  handled, response >>
  /\ UNCHANGED << parserVars, renderVars, compilerVars, notifyVars >>

\* stop(), the rest: watcher = null, and the call resolves.
StopResolve ==
  /\ Quiet
  /\ call = "stop"
  /\ watcher' = 0
  /\ call' = "none"
  /\ stopped' = TRUE
  /\ UNCHANGED << files, tools, open, created, connected, reading, handled, response >>
  /\ UNCHANGED << parserVars, renderVars, compilerVars, notifyVars >>

\* stop() without a watcher resolves at once.
StopIdle ==
  /\ Quiet
  /\ call = "none"
  /\ watcher = 0
  /\ stopped' = TRUE
  /\ UNCHANGED << files, tools, watcher, open, created, call, connected, reading,
                  handled, response >>
  /\ UNCHANGED << parserVars, renderVars, compilerVars, notifyVars >>

\* What an 'add' or 'change' event does when an instance is open: its
\* listener calls handleFileChange, which starts to read the file; the
\* content is Pending until the file system has answered.
Pending == <<"<pending>">>

Reads(event, filePath) ==
  IF open = {} THEN reading
  ELSE reading \cup { [event |-> event, filePath |-> filePath, content |-> Pending] }

\* A file is created.
FileAdd ==
  /\ Quiet
  /\ \E p \in FilePaths, text \in FileTexts :
       /\ files[p] = NoFile
       /\ files' = [files EXCEPT ![p] = text]
       /\ reading' = Reads("add", p)
       /\ Cardinality(reading') <= MaxReading
  /\ UNCHANGED << tools, watcher, open, created, call, stopped, connected,
                  handled, response >>
  /\ UNCHANGED << parserVars, renderVars, compilerVars, notifyVars >>

\* A file is rewritten.
FileChange ==
  /\ Quiet
  /\ \E p \in FilePaths, text \in FileTexts :
       /\ files[p] \notin { NoFile, text }
       /\ files' = [files EXCEPT ![p] = text]
       /\ reading' = Reads("change", p)
       /\ Cardinality(reading') <= MaxReading
  /\ UNCHANGED << tools, watcher, open, created, call, stopped, connected,
                  handled, response >>
  /\ UNCHANGED << parserVars, renderVars, compilerVars, notifyVars >>

\* A file is removed: handleFileChange('unlink', filePath) reads nothing and
\* tells the handlers in the same turn.
FileUnlink ==
  /\ Quiet
  /\ \E p \in FilePaths :
       /\ files[p] # NoFile
       /\ files' = [files EXCEPT ![p] = NoFile]
       /\ IF open = {}
          THEN UNCHANGED << tools, handled >>
          ELSE LET change == FileChangeEvent("unlink", p, Undefined) IN
               /\ tools' = onFileChange(tools, change)
               /\ handled' = change
  /\ UNCHANGED << watcher, open, created, call, stopped, connected, reading, response >>
  /\ UNCHANGED << parserVars, renderVars, compilerVars, notifyVars >>

\* The file system answers the fs.readFile of a handleFileChange call: with
\* the text the file holds at that moment, or with an error when there is no
\* file (.catch gives content undefined). The call goes on in a later turn.
ReadFile ==
  /\ Quiet
  /\ \E r \in reading :
       /\ r.content = Pending
       /\ LET text == IF files[r.filePath] = NoFile THEN Undefined
                      ELSE files[r.filePath]
          IN reading' = (reading \ { r }) \cup { [r EXCEPT !.content = text] }
  /\ UNCHANGED << files, tools, watcher, open, created, call, stopped, connected,
                  handled, response >>
  /\ UNCHANGED << parserVars, renderVars, compilerVars, notifyVars >>

\* The await of a handleFileChange call ends with the content its read gave,
\* and the handlers are told.
ReadDone ==
  /\ Quiet
  /\ \E r \in reading :
       /\ r.content # Pending
       /\ LET change == FileChangeEvent(r.event, r.filePath, r.content)
          IN /\ tools' = onFileChange(tools, change)
             /\ handled' = change
             /\ reading' = reading \ { r }
  /\ UNCHANGED << files, watcher, open, created, call, stopped, connected, response >>
  /\ UNCHANGED << parserVars, renderVars, compilerVars, notifyVars >>

\* A request and what its handler ended with.
Answer(request, name, args, outcome) ==
  [request |-> request, name |-> name, args |-> args, outcome |-> outcome]

ListToolsRequest ==
  /\ Quiet
  /\ connected
  /\ response' = Answer("ListTools", "", <<>>, ListTools(tools))
  /\ UNCHANGED << files, tools, watcher, open, created, call, stopped, connected,
                  reading, handled >>
  /\ UNCHANGED << parserVars, renderVars, compilerVars, notifyVars >>

CallToolRequest ==
  /\ Quiet
  /\ connected
  /\ \E name \in RequestNames, args \in RequestArgs :
       response' = Answer("CallTool", name, args, CallTool(tools, name, args))
  /\ UNCHANGED << files, tools, watcher, open, created, call, stopped, connected,
                  reading, handled >>
  /\ UNCHANGED << parserVars, renderVars, compilerVars, notifyVars >>

ListPromptsRequest ==
  /\ Quiet
  /\ connected
  /\ response' = Answer("ListPrompts", "", <<>>, ListPrompts(tools))
  /\ UNCHANGED << files, tools, watcher, open, created, call, stopped, connected,
                  reading, handled >>
  /\ UNCHANGED << parserVars, renderVars, compilerVars, notifyVars >>

GetPromptRequest ==
  /\ Quiet
  /\ connected
  /\ \E name \in RequestNames, args \in RequestArgs :
       response' = Answer("GetPrompt", name, args, GetPrompt(tools, name, args))
  /\ UNCHANGED << files, tools, watcher, open, created, call, stopped, connected,
                  reading, handled >>
  /\ UNCHANGED << parserVars, renderVars, compilerVars, notifyVars >>

\* The registry handler returns to notifyHandlers.
HandlerReturn ==
  /\ handled # NotYet
  /\ handled' = NotYet
  /\ UNCHANGED << files, tools, watcher, open, created, call, stopped, connected,
                  reading, response >>
  /\ UNCHANGED << parserVars, renderVars, compilerVars, notifyVars >>

\* The answer is sent.
Respond ==
  /\ response # NotYet
  /\ response' = NotYet
  /\ UNCHANGED << files, tools, watcher, open, created, call, stopped, connected,
                  reading, handled >>
  /\ UNCHANGED << parserVars, renderVars, compilerVars, notifyVars >>

ServerNext ==
  \/ StartLoad
  \/ StartWatch
  \/ StopClose
  \/ StopResolve
  \/ StopIdle
  \/ FileAdd
  \/ FileChange
  \/ FileUnlink
  \/ ReadFile
  \/ ReadDone
  \/ HandlerReturn
  \/ ListToolsRequest
  \/ CallToolRequest
  \/ ListPromptsRequest
  \/ GetPromptRequest
  \/ Respond

ServerSpec == ServerInit /\ [][ServerNext]_vars


(***************************************************************************)
(* Renders of one compiled template by several callers.  A call maps       *)
(* renderNode over parsed.ast and joins the texts; the calls of different  *)
(* callers are taken node by node, in any order.                           *)
(***************************************************************************)
\* The templates the callers share: two placeholders, a block with a text
\* and a placeholder followed by a placeholder, and a block whose control
\* variable is an inherited key.
RenderDocs ==
  { DocAB,
    Header(YamlAB) \o <<"#", "{", "?", "b", "}", "x", "#", "{", "a", "}",
                        "#", "{", "/", "}", "#", "{", "a", "}">>,
    <<"x", "#", "{", "?">> \o Ctor \o <<"}", "x", "#", "{", "/", "}">> }

\* The compile is done before the first call.
RenderInit ==
  /\ ServerIdle
  /\ RenderIdle
  /\ CompilersIdle
  /\ NotifyIdle
  /\ content \in RenderDocs
  /\ phase = "parsed"
  /\ body = extractFrontmatter(content).body
  /\ frontmatter = <<>>
  /\ placeholderMatches = <<>>
  /\ matchIdx = 1
  /\ blockStack = RootStack
  /\ seenVariables = <<>>
  /\ lastIndex = 0
  /\ parsed = parseTemplate(content)
  /\ variables = NotYet
  /\ output = NotYet

\* Mutant of TemplateAfterNode: the text a node rendered to is kept in the
\* template in place of the node.
TemplateAfterNodeCached(template, i, rendered) ==
  [template EXCEPT !.ast[i] = TextNode(rendered.text)]

\* What renderNode leaves of the compiled template when it has rendered the
\* i-th node: it reads the node and the values and assigns nothing.
TemplateAfterNode(template, i, rendered) == template

\* parts.join('')
JoinParts(parts) == Flatten(parts)

\* renderTemplate(parsed, values) is called by the caller c.
RenderCall(c) ==
  /\ running[c] = NotYet
  /\ \E values \in ValueMaps :
       running' = [running EXCEPT ![c] =
                     [values |-> values, next |-> 1, parts |-> <<>>,
                      done |-> FALSE, result |-> NotYet]]
  /\ UNCHANGED << parserVars, serverVars, compilerVars, notifyVars >>

\* One turn of parsed.ast.map(renderNode) in the call of c; a TypeError ends
\* the call.
RenderStep(c) ==
  /\ running[c] # NotYet
  /\ ~running[c].done
  /\ running[c].next <= Len(parsed.ast)
  /\ LET current == running[c]
         rendered == RenderNode(parsed.ast[current.next], current.values)
     IN /\ running' =
             [running EXCEPT ![c] =
                IF rendered.threw
                THEN [current EXCEPT !.done = TRUE, !.result = TypeError]
                ELSE [current EXCEPT !.next = @ + 1,
                                  !.parts = Append(@, rendered.text)]]
        /\ parsed' = TemplateAfterNode(parsed, current.next, rendered)
  /\ UNCHANGED << content, phase, body, frontmatter, placeholderMatches, matchIdx,
                  blockStack, seenVariables, lastIndex, variables, output >>
  /\ UNCHANGED << serverVars, compilerVars, notifyVars >>

\* .join('') and the return of the call of c.
RenderJoin(c) ==
  /\ running[c] # NotYet
  /\ ~running[c].done
  /\ running[c].next > Len(parsed.ast)
  /\ running' = [running EXCEPT ![c].done = TRUE,
                                ![c].result = Rendered(JoinParts(running[c].parts))]
  /\ UNCHANGED << parserVars, serverVars, compilerVars, notifyVars >>

\* The caller c has taken the result of its call.
RenderTaken(c) ==
  /\ running[c] # NotYet
  /\ running[c].done
  /\ running' = [running EXCEPT ![c] = NotYet]
  /\ UNCHANGED << parserVars, serverVars, compilerVars, notifyVars >>

RenderNext ==
  \E c \in Callers :
    \/ RenderCall(c)
    \/ RenderStep(c)
    \/ RenderJoin(c)
    \/ RenderTaken(c)

RenderSpec == RenderInit /\ [][RenderNext]_vars


(***************************************************************************)
(* Compiles of several documents by several callers.  A call makes its     *)
(* header map, takes the matches of its body one by one and builds its     *)
(* result; the calls of different callers are taken turn by turn, in any   *)
(* order.                                                                  *)
(***************************************************************************)
\* The documents the callers compile: a block of the undeclared b, closed
\* and followed by a plain marker of b; a plain marker of b alone; the
\* declared a in a block of b; a block of b left unclosed.
CompileDocs ==
  { <<"#", "{", "?", "b", "}", "x", "#", "{", "/", "}", "#", "{", "b", "}">>,
    <<"#", "{", "b", "}">>,
    Header(YamlA) \o <<"#", "{", "?", "b", "}", "#", "{", "a", "}", "#", "{", "/", "}">>,
    <<"x", "#", "{", "?", "b", "}">> }

CompilersInit ==
  /\ ServerIdle
  /\ RenderIdle
  /\ CompilersIdle
  /\ NotifyIdle
  /\ ParserIdle

\* The references held by the calls in progress.
HeldRefs ==
  { compiling[c].frontmatter :
      c \in { d \in Compilers : compiling[d] # NotYet /\ compiling[d].parsed = NotYet } }

\* Mutant of NewHeaderRef: the header map is one object of the module, the
\* same for every call.
NewHeaderRefShared(held) == 1

\* The object extractFrontmatter returns as frontmatter is made by the call:
\* the literal {} of line 238, the {} of lines 257 and 275, or the result of
\* Object.fromEntries at line 272; its reference is held by no other call.
NewHeaderRef(held) == CHOOSE r \in HeaderRefs : r \notin held

\* parseTemplate(content) is called by the caller c: extractFrontmatter,
\* then the state of buildASTFromBody before the first match.
CompileCall(c) ==
  /\ compiling[c] = NotYet
  /\ \E doc \in CompileDocs :
       LET fm == extractFrontmatter(doc)
           ref == NewHeaderRef(HeldRefs)
       IN /\ headerMaps' = [headerMaps EXCEPT ![ref] = fm.frontmatter]
          /\ compiling' =
               [compiling EXCEPT ![c] =
                  [content |-> doc, body |-> fm.body,
                   placeholderMatches |-> MatchAll(fm.body, 1), matchIdx |-> 1,
                   frontmatter |-> ref, blockStack |-> RootStack,
                   seenVariables |-> <<>>, lastIndex |-> 0, parsed |-> NotYet]]
  /\ UNCHANGED << parserVars, serverVars, renderVars, notifyVars >>

\* The state of the loop of the call of c, the header map read through its
\* reference.
LoopState(c) ==
  [frontmatter |-> headerMaps[compiling[c].frontmatter],
   blockStack |-> compiling[c].blockStack,
   seenVariables |-> compiling[c].seenVariables,
   lastIndex |-> compiling[c].lastIndex]

\* One turn of the loop over placeholderMatches in the call of c; what the
\* turn assigns to the header map goes to the object the call refers to.
CompileStep(c) ==
  /\ compiling[c] # NotYet
  /\ compiling[c].parsed = NotYet
  /\ compiling[c].matchIdx <= Len(compiling[c].placeholderMatches)
  /\ LET current == compiling[c]
         after == ProcessMatch(LoopState(c), current.body,
                               current.placeholderMatches[current.matchIdx])
     IN /\ headerMaps' = [headerMaps EXCEPT ![current.frontmatter] = after.frontmatter]
        /\ compiling' =
             [compiling EXCEPT ![c] =
                [current EXCEPT !.matchIdx = @ + 1,
                                !.blockStack = after.blockStack,
                                !.seenVariables = after.seenVariables,
                                !.lastIndex = after.lastIndex]]
  /\ UNCHANGED << parserVars, serverVars, renderVars, notifyVars >>

\* The end of buildASTFromBody, buildJSONSchema and the return of the call
\* of c.
CompileReturn(c) ==
  /\ compiling[c] # NotYet
  /\ compiling[c].parsed = NotYet
  /\ compiling[c].matchIdx > Len(compiling[c].placeholderMatches)
  /\ compiling' =
       [compiling EXCEPT ![c].parsed =
          ParsedTemplate(compiling[c].content,
                         FinishAST(LoopState(c), compiling[c].body))]
  /\ UNCHANGED << headerMaps, parserVars, serverVars, renderVars, notifyVars >>

\* The caller c has taken the result of its call.
CompileTaken(c) ==
  /\ compiling[c] # NotYet
  /\ compiling[c].parsed # NotYet
  /\ compiling' = [compiling EXCEPT ![c] = NotYet]
  /\ UNCHANGED << headerMaps, parserVars, serverVars, renderVars, notifyVars >>

CompilersNext ==
  \E c \in Compilers :
    \/ CompileCall(c)
    \/ CompileStep(c)
    \/ CompileReturn(c)
    \/ CompileTaken(c)

CompilersSpec == CompilersInit /\ [][CompilersNext]_vars


(***************************************************************************)
(* One watcher and its handlers: onFileChange adds a handler, and          *)
(* notifyHandlers calls the handlers of the Set one after the other inside *)
(* Array.from(handlers).map(...), then awaits the promises.                *)
(***************************************************************************)
\* What a handler does when it is called: it returns (or its promise
\* resolves), its promise rejects, or it throws before it returns anything.
HandlerKinds == { "returns", "rejects", "throws" }

\* The changes the handlers are told of.
Changes ==
  { FileChangeEvent("add", [dir |-> "d1", name |-> "t"], DocAB),
    FileChangeEvent("change", [dir |-> "d1", name |-> "t"], DocAB),
    FileChangeEvent("unlink", [dir |-> "d1", name |-> "t"], Undefined) }

NotifyInit ==
  /\ ServerIdle
  /\ RenderIdle
  /\ CompilersIdle
  /\ NotifyIdle
  /\ ParserIdle

\* Promise.resolve(handler(change)).catch(...) for a handler of the kind: a
\* promise that fulfils, the rejection of the handler's promise being caught
\* and logged; or, when handler(change) itself throws, no promise at all:
\* the exception leaves the callback of map.
CallHandler(kind) == IF kind = "throws" THEN "thrown" ELSE "fulfilled"

\* watcher.onFileChange(handler)
OnFileChange ==
  /\ notifying = NotYet
  /\ Len(handlers) < MaxHandlers
  /\ \E kind \in HandlerKinds : handlers' = Append(handlers, kind)
  /\ UNCHANGED notifying
  /\ UNCHANGED << parserVars, serverVars, renderVars, compilerVars >>

\* notifyHandlers(change) is called.
NotifyCall ==
  /\ notifying = NotYet
  /\ \E change \in Changes :
       notifying' = [change |-> change, next |-> 1, invoked |-> {},
                     promises |-> 0, outcome |-> "pending"]
  /\ UNCHANGED handlers
  /\ UNCHANGED << parserVars, serverVars, renderVars, compilerVars >>

\* One turn of the map over the handlers: the next handler is called; an
\* exception it throws ends the map, and the promise of notifyHandlers, an
\* async function, rejects with it.
NotifyHandler ==
  /\ notifying # NotYet
  /\ notifying.outcome = "pending"
  /\ notifying.next <= Len(handlers)
  /\ LET called == CallHandler(handlers[notifying.next]) IN
     notifying' =
       IF called = "thrown"
       THEN [notifying EXCEPT !.invoked = @ \cup { notifying.next },
                              !.outcome = "rejected"]
       ELSE [notifying EXCEPT !.invoked = @ \cup { notifying.next },
                              !.next = @ + 1,
                              !.promises = @ + 1]
  /\ UNCHANGED handlers
  /\ UNCHANGED << parserVars, serverVars, renderVars, compilerVars >>

\* await Promise.all(promises): every promise of the map has fulfilled.
NotifyResolve ==
  /\ notifying # NotYet
  /\ notifying.outcome = "pending"
  /\ notifying.next > Len(handlers)
  /\ notifying' = [notifying EXCEPT !.outcome = "resolved"]
  /\ UNCHANGED handlers
  /\ UNCHANGED << parserVars, serverVars, renderVars, compilerVars >>

\* The caller of notifyHandlers has its outcome.
NotifyEnd ==
  /\ notifying # NotYet
  /\ notifying.outcome # "pending"
  /\ notifying' = NotYet
  /\ UNCHANGED handlers
  /\ UNCHANGED << parserVars, serverVars, renderVars, compilerVars >>

NotifyNext ==
  \/ OnFileChange
  \/ NotifyCall
  \/ NotifyHandler
  \/ NotifyResolve
  \/ NotifyEnd

NotifySpec == NotifyInit /\ [][NotifyNext]_vars


(***************************************************************************)
(* The description of a tool: the server is started over one file whose    *)
(* text is built from lines, and the tool it registers is listed.          *)
(***************************************************************************)
\* A file has at most MaxLines lines after its header, if it has one.
MaxLines == 3

\* A line of more than DescriptionMax characters.
LongLine == [i \in 1 .. DescriptionMax + 1 |-> IF i = 3 THEN " " ELSE "y"]

\* The lines: empty, blank, a heading, a heading after blanks, a line that
\* starts with $, text, text between blanks, a fence of dashes, a long line.
DescriptionLines ==
  { <<>>,
    <<" ">>,
    <<"#", " ", "x">>,
    <<" ", "#", "x">>,
    <<"$", "x">>,
    <<"d">>,
    <<" ", "d", " ", "e", " ">>,
    <<"-", "-", "-">>,
    LongLine }

\* lines.join('\n')
RECURSIVE JoinLines(_)
JoinLines(lines) ==
  IF lines = <<>> THEN <<>>
  ELSE IF Len(lines) = 1 THEN lines[1]
  ELSE lines[1] \o <<"\n">> \o JoinLines(Tail(lines))

\* The texts of the file: up to MaxLines lines, and a header before a line.
DescriptionDocs ==
  { JoinLines(ls) : ls \in UNION { [1 .. n -> DescriptionLines] : n \in 1 .. MaxLines } }
    \cup { Header(YamlA) \o l : l \in DescriptionLines }

\* createCommandServer over one directory that holds t.md.
DescribeInit ==
  /\ ParserIdle
  /\ RenderIdle
  /\ CompilersIdle
  /\ NotifyIdle
  /\ \E text \in DescriptionDocs :
       files = [p \in FilePaths |-> IF p.dir = "d1" THEN text ELSE NoFile]
  /\ tools = <<>>
  /\ watcher = 0
  /\ open = {}
  /\ created = 0
  /\ call = "none"
  /\ stopped = FALSE
  /\ connected = FALSE
  /\ reading = {}
  /\ handled = NotYet
  /\ response = NotYet

DescribeNext ==
  \/ StartLoad
  \/ HandlerReturn
  \/ StartWatch
  \/ ListToolsRequest
  \/ Respond

DescribeSpec == DescribeInit /\ [][DescribeNext]_vars


(***************************************************************************)
(* Properties.                                                             *)
(***************************************************************************)
\* Every node of an AST, at any depth.
RECURSIVE NodesOf(_)
NodesOf(nodes) ==
  IF nodes = <<>> THEN {}
  ELSE LET h == Head(nodes) IN
       {h} \cup (IF h.type = "block" THEN NodesOf(h.content) ELSE {})
           \cup NodesOf(Tail(nodes))

\* A render of the compiled template has just returned output for variables.
HasRendered == phase = "parsed" /\ output # NotYet

AstNodes == NodesOf(parsed.ast)

Blocks == { n \in AstNodes : n.type = "block" }
Placeholders == { n \in AstNodes : n.type = "placeholder" }

\* The key is not among the supplied values.
Absent(name) == name \notin DOMAIN variables

\* The children of a block rendered one after the other, left to right.
RECURSIVE ChildrenInOrder(_, _, _)
ChildrenInOrder(nodes, values, i) ==
  IF i > Len(nodes) THEN Rendered(<<>>)
  ELSE LET first == RenderNode(nodes[i], values)
           rest == ChildrenInOrder(nodes, values, i + 1)
       IN IF first.threw \/ rest.threw THEN TypeError
          ELSE Rendered(first.text \o rest.text)

\* C1 (as claimed): a conditional block whose control variable is absent
\* from the supplied values, or supplied as a text that is empty after
\* trimming, renders as the empty text, whatever else is supplied.
C1_SuppressedBlockEmitsNothing ==
  HasRendered =>
    \A n \in Blocks :
      (Absent(n.variable) \/ Trim(variables[n.variable]) = <<>>)
        => RenderNode(n, variables) = Rendered(<<>>)

\* C2: a conditional block whose control variable is supplied as a text
\* that is not empty after trimming renders as the concatenation, in
\* document order, of the renderings of its children under the same values,
\* with nothing added for its own open and close markers.
C2_RenderedBlockIsItsChildren ==
  HasRendered =>
    \A n \in Blocks :
      (~Absent(n.variable) /\ Trim(variables[n.variable]) # <<>>)
        => RenderNode(n, variables) = ChildrenInOrder(n.content, variables, 1)

\* C2 witness: a rendered block with a text and a substituted placeholder
\* inside, whose output is the text followed by the value.
C2_Witness ==
  /\ HasRendered
  /\ \E n \in Blocks :
       /\ ~Absent(n.variable) /\ Trim(variables[n.variable]) # <<>>
       /\ Len(n.content) = 2
       /\ n.content[1].type = "text"
       /\ n.content[2].type = "placeholder"
       /\ ~Absent(n.content[2].name)
       /\ output = Rendered(n.content[1].text \o variables[n.content[2].name])

\* The marker of a placeholder node as it was written in the body.
Written(node) == Slice(body, node.start + 1, node.end)

\* The name a written plain marker carries: the text between `#{` and `}`,
\* without a final `?`, trimmed.
WrittenName(written) ==
  LET inner == Slice(written, 3, Len(written) - 1)
      bare == IF inner # <<>> /\ inner[Len(inner)] = "?"
              THEN SubSeq(inner, 1, Len(inner) - 1) ELSE inner
  IN Trim(bare)

\* The supplied values without one key.
Without(values, name) == [k \in DOMAIN values \ {name} |-> values[k]]

\* C3 (as claimed, and only for names that are no inherited keys, which
\* C4 is about): a placeholder whose name is absent from the supplied values
\* renders as the marker of that occurrence exactly as it was written in the
\* body.
C3_AbsentRendersWrittenMarker ==
  HasRendered =>
    \A n \in Placeholders :
      (Absent(n.name) /\ n.name \notin ObjectPrototypeKeys)
        => RenderNode(n, variables) = Rendered(Written(n))

\* C3 (amended): a placeholder whose name is absent from the supplied values
\* renders, required or optional, as `#{name}` with the trimmed name of the
\* written marker and neither its blanks nor its `?` (for a name inherited
\* from Object.prototype, as the text of the inherited value); this is
\* the marker as written only when it was written exactly `#{name}`.
C3_AbsentRendersCanonicalMarker ==
  HasRendered =>
    \A n \in Placeholders :
      Absent(n.name) =>
        LET canonical == <<"#", "{">> \o WrittenName(Written(n)) \o <<"}">>
            out == RenderNode(n, variables)
        IN /\ n.name \notin ObjectPrototypeKeys => out = Rendered(canonical)
           /\ n.name \in ObjectPrototypeKeys =>
                out \in { Rendered(FunctionText), Rendered(ObjectText) }
           /\ out = Rendered(Written(n)) <=>
                (Written(n) = canonical /\ n.name \notin ObjectPrototypeKeys)

\* C3 witness: an optional placeholder written with a blank and a `?`, its
\* name not supplied, rendered as `#{a}`, which is not what was written.
C3_Witness ==
  /\ HasRendered
  /\ \E n \in Placeholders :
       /\ Absent(n.name) /\ IsOptional(n)
       /\ Written(n) = <<"#", "{", " ", "a", "?", "}">>
       /\ parsed.ast = << n >>
       /\ output = Rendered(<<"#", "{", "a", "}">>)

\* C4 (as claimed): a placeholder whose name is absent from the supplied
\* values renders as `#{name}`, name being the trimmed name without `?`.
C4_AbsentRendersHashBraceName ==
  HasRendered =>
    \A n \in Placeholders :
      Absent(n.name) => RenderNode(n, variables) = Rendered(PlaceholderMarker(n.name))

\* C5: an optional placeholder supplied the empty text renders as the empty
\* text, and not as it renders when its key is not supplied.
C5_OptionalEmptyIsNotAbsent ==
  HasRendered =>
    \A n \in Placeholders :
      (IsOptional(n) /\ ~Absent(n.name) /\ variables[n.name] = <<>>) =>
        /\ RenderNode(n, variables) = Rendered(<<>>)
        /\ RenderNode(n, Without(variables, n.name)) # Rendered(<<>>)

\* C5 witness: a template that is one optional placeholder has rendered as
\* the empty text for the empty value.
C5_Witness ==
  /\ HasRendered
  /\ \E n \in Placeholders :
       /\ IsOptional(n) /\ ~Absent(n.name) /\ variables[n.name] = <<>>
       /\ parsed.ast = << n >>
       /\ output = Rendered(<<>>)

\* The body with every match replaced by value, the rest kept.
RECURSIVE ReplaceMatches(_, _, _, _, _)
ReplaceMatches(text, matches, value, i, from) ==
  IF i > Len(matches) THEN Slice(text, from, Len(text))
  ELSE Slice(text, from, matches[i].index - 1) \o value
       \o ReplaceMatches(text, matches, value, i + 1, matches[i].end + 1)

\* The header declares a, required, and nothing else.
DeclaresOnlyRequiredA ==
  LET fm == extractFrontmatter(content).frontmatter IN
  DOMAIN fm = { <<"a">> } /\ ~fm[<<"a">>].optional

\* Every marker of the body is a plain marker naming a.
OnlyPlainA ==
  \A i \in 1 .. Len(placeholderMatches) :
    /\ placeholderMatches[i].prefix = ""
    /\ Trim(placeholderMatches[i].name) = <<"a">>

C7_NoVarsRendersBody ==
  (HasRendered /\ parsed.vars = <<>> /\ DOMAIN variables = {}) =>
    output = Rendered(body)

\* The text sub occurs in the text s.
Occurs(sub, s) ==
  \E i \in 1 .. Len(s) - Len(sub) + 1 : SubSeq(s, i, i + Len(sub) - 1) = sub

\* C8 (as claimed): a document with no header region compiles to no
\* variables, and rendered with no values it shows every marker of its body
\* as written.
C8_NoHeaderNoVars ==
  (phase = "parsed" /\ ~FrontmatterMatch(content).found) =>
    /\ parsed.vars = <<>>
    /\ (HasRendered /\ DOMAIN variables = {}) =>
         /\ ~output.threw
         /\ \A i \in 1 .. Len(placeholderMatches) :
              Occurs(FullMatch(body, placeholderMatches[i]), output.text)

\* C9: a name that the body references as a placeholder has exactly one
\* entry in vars, and a render that supplies a value for it puts that value
\* at every one of its occurrences.
C9_OneEntrySameValue ==
  phase = "parsed" =>
    \A n \in Placeholders :
      /\ Cardinality({ i \in 1 .. Len(parsed.vars) :
                         parsed.vars[i].name = n.name }) = 1
      /\ (HasRendered /\ ~Absent(n.name)) =>
           RenderNode(n, variables) = Rendered(variables[n.name])

\* C9 witness: three references to a, one entry in vars, the value at all.
C9_Witness ==
  /\ HasRendered
  /\ Len(parsed.ast) = 3
  /\ \A i \in 1 .. 3 :
       parsed.ast[i].type = "placeholder" /\ parsed.ast[i].name = <<"a">>
  /\ Len(parsed.vars) = 1
  /\ variables = (<<"a">> :> <<"V">>)
  /\ output = Rendered(<<"V", "V", "V">>)

\* The state of the scan just before the i-th match is handled.
ScanBefore(i) ==
  ScanFrom(ScanStart(extractFrontmatter(content).frontmatter), body,
           SubSeq(placeholderMatches, 1, i - 1), 1)

\* The i-th match is one of the malformed markers: a plain or block start
\* marker with an empty name, a plain marker whose name is neither declared
\* in the header nor opened as a block before it, a block end with no scope
\* open, or a block end naming another variable than the innermost scope's.
Malformed(i) ==
  LET m == placeholderMatches[i]
      name == Trim(m.name)
      before == ScanBefore(i)
      depth == Len(before.blockStack)
  IN \/ m.prefix \in {"", "?"} /\ name = <<>>
     \/ m.prefix = "" /\ name \notin DOMAIN before.frontmatter
     \/ m.prefix = "/" /\ depth = 1
     \/ m.prefix = "/" /\ depth > 1 /\ name # <<>>
          /\ name # before.blockStack[depth].variable

\* C10 (as claimed): parseTemplate returns a ParsedTemplate for every text,
\* whatever is malformed in it: the loop always has a handler for the match
\* it is at and ends after the last match, and in the result
\* every malformed marker, and the open marker of every block left unclosed,
\* is literal text.
C10_ParseReturnsLiteralFallback ==
  /\ phase = "scan" =>
       /\ matchIdx \in 1 .. Len(placeholderMatches) + 1
       /\ matchIdx <= Len(placeholderMatches) =>
            placeholderMatches[matchIdx].prefix \in {"?", "/", ""}
  /\ phase = "parsed" =>
       /\ {"ast", "vars", "inputSchema"} \subseteq DOMAIN parsed
       /\ \A i \in 1 .. Len(placeholderMatches) :
            Malformed(i) =>
              TextNode(FullMatch(body, placeholderMatches[i])) \in AstNodes
       /\ \A k \in 2 .. Len(blockStack) :
            TextNode(BlockStartMarker(blockStack[k].variable)) \in AstNodes

\* C11 (as claimed): a render returns a text and never raises, whatever
\* values are supplied or left out, and a required placeholder whose value is
\* left out shows as its marker `#{name}` (stated here for the names that
\* are no inherited keys; C4 is about the marker of the others).
C11_RenderNeverRaises ==
  HasRendered =>
    /\ ~output.threw
    /\ \A n \in Placeholders :
         (~IsOptional(n) /\ Absent(n.name) /\ n.name \notin ObjectPrototypeKeys) =>
           Occurs(PlaceholderMarker(n.name), RenderNode(n, variables).text)

\* The document begins with a header region and YAML.parse throws on what
\* is between its delimiters.
HeaderFailsToParse ==
  LET match == FrontmatterMatch(content) IN
  match.found /\ YamlParse(match.yamlContent).threw

\* C15 (as claimed): when the header region fails to parse, the header is
\* empty, the body handed to the tokenizer is the whole document, and the
\* header delimiters are literal text of the AST and of every render.
C15_FailedHeaderKeepsFullText ==
  HeaderFailsToParse =>
    /\ phase # "start" =>
         /\ extractFrontmatter(content).frontmatter = <<>>
         /\ body = content
    /\ phase = "parsed" =>
         \E n \in AstNodes : n.type = "text" /\ Occurs(Fence, n.text)
    /\ (HasRendered /\ ~output.threw) => Occurs(Fence, output.text)

\* The names of the entries of vars whose optional flag is false, in order.
RECURSIVE NamesNotOptional(_, _)
NamesNotOptional(entries, i) ==
  IF i > Len(entries) THEN <<>>
  ELSE (IF IsOptional(entries[i]) THEN <<>> ELSE << entries[i].name >>)
       \o NamesNotOptional(entries, i + 1)

\* C16 (as claimed): inputSchema has type object, one property of type
\* string for every entry of vars and no other, and a required list that is
\* the names of the entries that are not optional, in the order of vars.
C16_SchemaMatchesVars ==
  phase = "parsed" =>
    LET schema == parsed.inputSchema IN
    /\ schema.type = "object"
    /\ DOMAIN schema.properties =
         { parsed.vars[i].name : i \in 1 .. Len(parsed.vars) }
    /\ \A name \in DOMAIN schema.properties :
         schema.properties[name].type = "string"
    /\ schema.required = NamesNotOptional(parsed.vars, 1)
    /\ \A i \in 1 .. Len(parsed.vars) :
         IsOptional(parsed.vars[i]) =>
           \A k \in 1 .. Len(schema.required) :
             schema.required[k] # parsed.vars[i].name

\* C17 (as claimed, for names that are no inherited keys): the variable of
\* every closed conditional block has an entry in vars that is optional, and
\* is not in the required list of the schema.
C17_BlockVariableIsOptional ==
  phase = "parsed" =>
    \A n \in Blocks :
      n.variable \notin ObjectPrototypeKeys =>
        /\ \E i \in 1 .. Len(parsed.vars) :
             parsed.vars[i].name = n.variable /\ IsOptional(parsed.vars[i])
        /\ \A k \in 1 .. Len(parsed.inputSchema.required) :
             parsed.inputSchema.required[k] # n.variable

\* The i-th match is a block end that names another variable than the
\* innermost open scope's.
MismatchedEnd(i) ==
  LET m == placeholderMatches[i]
      before == ScanBefore(i)
      depth == Len(before.blockStack)
  IN /\ m.prefix = "/"
     /\ Trim(m.name) # <<>>
     /\ depth > 1
     /\ Trim(m.name) # before.blockStack[depth].variable

\* The text nodes a render emits: those of the top level and of the blocks
\* it renders, none of a block it suppresses.
RECURSIVE EmittedTexts(_, _)
EmittedTexts(nodes, values) ==
  IF nodes = <<>> THEN {}
  ELSE LET h == Head(nodes) IN
       (IF h.type = "text" THEN { h.text }
        ELSE IF h.type = "block" /\ BlockDecision(values, h.variable) = "render"
        THEN EmittedTexts(h.content, values)
        ELSE {})
       \cup EmittedTexts(Tail(nodes), values)

\* What handling a mismatched block end does to the scope stack: the frames
\* and their variables stay, and the innermost frame gets the text before
\* the marker, if any, and then the marker as literal text.
MismatchedEndIsInert(i) ==
  LET m == placeholderMatches[i]
      before == ScanBefore(i)
      after == ScanBefore(i + 1)
      depth == Len(before.blockStack)
      precedingText == Slice(body, before.lastIndex + 1, m.index - 1)
      marker == TextNode(FullMatch(body, m))
  IN /\ Len(after.blockStack) = depth
     /\ \A k \in 1 .. depth - 1 : after.blockStack[k] = before.blockStack[k]
     /\ after.blockStack[depth].variable = before.blockStack[depth].variable
     /\ after.blockStack[depth].content =
          before.blockStack[depth].content
            \o (IF precedingText # <<>> THEN << TextNode(precedingText) >> ELSE <<>>)
            \o << marker >>
     /\ after.seenVariables = before.seenVariables

\* C18 (as claimed): a block end naming another variable than the innermost
\* open scope's closes nothing, is appended as literal text inside that
\* scope, and is literal text of the final render.
C18_MismatchedEndShowsInEveryRender ==
  (HasRendered /\ ~output.threw) =>
    \A i \in 1 .. Len(placeholderMatches) :
      MismatchedEnd(i) =>
        /\ MismatchedEndIsInert(i)
        /\ Occurs(FullMatch(body, placeholderMatches[i]), output.text)

\* C18 (amended): a block end naming another variable than the innermost open
\* scope's closes nothing and is appended as literal text inside that scope;
\* it is a text node of the AST, and a render shows it when it emits the
\* content of that scope: always when the scope is left unclosed, and for a
\* scope closed later only in the renders that render its block.
C18_MismatchedEndIsLiteralInItsScope ==
  phase = "parsed" =>
    \A i \in 1 .. Len(placeholderMatches) :
      MismatchedEnd(i) =>
        LET marker == FullMatch(body, placeholderMatches[i]) IN
        /\ MismatchedEndIsInert(i)
        /\ TextNode(marker) \in AstNodes
        /\ (HasRendered /\ ~output.threw) =>
             /\ marker \in EmittedTexts(parsed.ast, variables)
                  => Occurs(marker, output.text)
             /\ Len(parsed.ast) = 1 /\ parsed.ast[1].type = "block"
                  /\ BlockDecision(variables, parsed.ast[1].variable) = "skip"
                  => output.text = <<>>

\* C18 witness: `#{?b}#{/a}#{/}` rendered with a value for b shows the
\* mismatched end `#{/a}` that the block of b holds as text.
C18_Witness ==
  /\ HasRendered
  /\ body = <<"#", "{", "?", "b", "}", "#", "{", "/", "a", "}", "#", "{", "/", "}">>
  /\ MismatchedEnd(2)
  /\ parsed.ast = << BlockNode(<<"b">>, << TextNode(<<"#", "{", "/", "a", "}">>) >>) >>
  /\ variables = (<<"b">> :> <<"V">>)
  /\ output = Rendered(<<"#", "{", "/", "a", "}">>)

\* body.indexOf("```", from - 1) + 1: the first fence at or after from, 0
\* when there is none.
RECURSIVE IndexOfFence(_, _)
IndexOfFence(text, from) ==
  IF from + 2 > Len(text) THEN 0
  ELSE IF SubSeq(text, from, from + 2) = CodeFence THEN from
  ELSE IndexOfFence(text, from + 1)

\* findCodeBlockRanges of the earlier parser: the fenced code blocks of the
\* body as pairs of first and last position, an unclosed fence reaching to
\* the end of the text.
RECURSIVE findCodeBlockRanges(_, _)
findCodeBlockRanges(text, i) ==
  LET openFence == IndexOfFence(text, i) IN
  IF openFence = 0 THEN {}
  ELSE LET closeFence == IndexOfFence(text, openFence + 3) IN
       IF closeFence = 0 THEN { << openFence, Len(text) >> }
       ELSE { << openFence, closeFence + 2 >> }
            \cup findCodeBlockRanges(text, closeFence + 3)

\* isInCodeBlock: the marker lies inside one of the fenced code blocks.
isInCodeBlock(text, m) ==
  \E range \in findCodeBlockRanges(text, 1) :
    m.index >= range[1] /\ m.end <= range[2]

\* C19 (as claimed): a plain marker inside a fenced code block is literal
\* text, also when the header declares its name: no Placeholder is built for
\* it, a name referenced only inside code blocks has no entry in vars, and a
\* render shows the marker as written instead of a value.
C19_FencedMarkerIsLiteral ==
  phase = "parsed" =>
    \A i \in 1 .. Len(placeholderMatches) :
      LET m == placeholderMatches[i] IN
      (m.prefix = "" /\ isInCodeBlock(body, m)) =>
        /\ \A n \in Placeholders : n.start # m.index - 1
        /\ (\A j \in 1 .. Len(placeholderMatches) :
              Trim(placeholderMatches[j].name) = Trim(m.name)
                => isInCodeBlock(body, placeholderMatches[j]))
             => \A k \in 1 .. Len(parsed.vars) : parsed.vars[k].name # Trim(m.name)
        /\ (HasRendered /\ ~output.threw) => Occurs(FullMatch(body, m), output.text)

\* The handler of a CallTool request for a registered tool has just ended.
CallToolAnswered ==
  /\ response # NotYet
  /\ response.request = "CallTool"
  /\ ToolsHas(tools, response.name)

\* The names of the entries that are not optional and are no key of args,
\* in order.
RECURSIVE NotSupplied(_, _)
NotSupplied(variableList, args) ==
  IF variableList = <<>> THEN <<>>
  ELSE (IF ~IsOptional(Head(variableList)) /\ Head(variableList).name \notin DOMAIN args
        THEN << Head(variableList).name >> ELSE <<>>)
       \o NotSupplied(Tail(variableList), args)

\* C12 (as claimed): a CallTool request for a registered tool fails with
\* 'Missing required arguments', naming them, exactly when a variable that
\* is not optional is no key of the arguments; otherwise it returns the
\* rendered text.
C12_CallToolFailsIffRequiredMissing ==
  CallToolAnswered =>
    LET template == ToolsGet(tools, response.name).parsed
        names == NotSupplied(template.vars, response.args)
        failure == Thrown(<<"Missing required arguments: ">> \o JoinNames(names))
    IN /\ names # <<>> <=> response.outcome = failure
       /\ names = <<>> =>
            /\ ~response.outcome.threw
            /\ Rendered(response.outcome.result) =
                 renderTemplate(template, response.args)

\* The registry handler has just been called for an add or a change that
\* carries a text.
ContentHandled ==
  /\ handled # NotYet
  /\ handled.event \in { "add", "change" }
  /\ handled.content # Undefined

\* C13 (as claimed): once an add or change carrying the text c for the file
\* f is handled, the tool named basename(f) holds parseTemplate(c) and
\* nothing of the template compiled before.
C13_HandledChangeReplacesTemplate ==
  ContentHandled =>
    /\ ToolsHas(tools, basename(handled.filePath))
    /\ ToolsGet(tools, basename(handled.filePath)).parsed =
         parseTemplate(handled.content)

\* The registry handler has just been called for an unlink.
UnlinkHandled == handled # NotYet /\ handled.event = "unlink"

\* C14: once an unlink of a file is handled, no tool has the basename of the
\* file as its name: ListTools lists none, and CallTool and GetPrompt for
\* the name fail with their not-found errors, whatever the arguments.
C14_UnlinkUnregisters ==
  UnlinkHandled =>
    LET name == basename(handled.filePath)
        listed == ListTools(tools).result
    IN /\ ~ToolsHas(tools, name)
       /\ \A i \in 1 .. Len(listed) : listed[i].name # name
       /\ \A args \in RequestArgs :
            /\ CallTool(tools, name, args) = Thrown(<<"Tool not found: ", name>>)
            /\ GetPrompt(tools, name, args) = Thrown(<<"Prompt not found: ", name>>)

\* C14 witness: the unlink of t.md in one directory is handled while the
\* watcher is open; the tool t is gone although the t.md of the other
\* directory still holds a template.
C14_Witness ==
  /\ UnlinkHandled
  /\ handled.filePath = [dir |-> "d1", name |-> "t"]
  /\ files[[dir |-> "d2", name |-> "t"]] = DocAB
  /\ open # {}
  /\ tools = <<>>
  /\ CallTool(tools, "t", <<>>).threw

\* stop() has resolved and no start() was called since.
AfterStop == stopped /\ call = "none"

\* C20 (as claimed): after stop() has resolved, whatever start() and stop()
\* calls came before it, no handler is called for a file event: not for one
\* that occurs afterwards and not for one whose file was being read when
\* stop() was called.
C20_NoHandlerAfterStop == AfterStop => handled = NotYet

\* parseTemplate has returned and no render of the template is in progress.
Compiled == phase = "parsed" /\ output = NotYet

\* The names of vars, in order.
VarNames == [k \in 1 .. Len(parsed.vars) |-> parsed.vars[k].name]

\* The matches at which the name n is seen in the body: the plain markers and
\* the block start markers that carry it.
SeenAt(n) ==
  { i \in 1 .. Len(placeholderMatches) :
      /\ placeholderMatches[i].prefix \in {"", "?"}
      /\ Trim(placeholderMatches[i].name) = n }

\* The name the i-th match makes a variable of: that of a plain marker that
\* becomes a Placeholder, that of the scope a block end closes, none
\* (Undefined) for every other match.
NameRegisteredBy(i) ==
  LET m == placeholderMatches[i]
      name == Trim(m.name)
      before == ScanBefore(i)
      depth == Len(before.blockStack)
  IN IF m.prefix = "" /\ name # <<>>
          /\ FrontmatterGet(before.frontmatter, name).truthy
     THEN name
     ELSE IF m.prefix = "/" /\ depth > 1
               /\ name \in { <<>>, before.blockStack[depth].variable }
     THEN before.blockStack[depth].variable
     ELSE Undefined

\* No name has two entries in vars.
VarsAreUnique ==
  \A k, l \in 1 .. Len(parsed.vars) : VarNames[k] = VarNames[l] => k = l

\* C21 (as claimed, for templates whose variables are no inherited keys):
\* vars lists each variable once, in the order in which the names are first
\* seen in the body, as a plain marker or as a block start marker, whatever
\* the order of the header.
C21_VarsInFirstSeenOrder ==
  (Compiled /\ \A k \in 1 .. Len(parsed.vars) :
                         VarNames[k] \notin ObjectPrototypeKeys) =>
    /\ VarsAreUnique
    /\ \A k, l \in 1 .. Len(parsed.vars) :
         k < l => Min(SeenAt(VarNames[k])) < Min(SeenAt(VarNames[l]))

\* C21 (amended): vars lists each variable once, in the order in which the
\* names are registered: a plain marker registers its name where it is
\* scanned, a block registers its control variable where its end marker
\* closes it, not where it starts; a block left unclosed registers nothing.
\* The order of the header plays no part.
C21_VarsInRegistrationOrder ==
  Compiled =>
    LET registered == [i \in 1 .. Len(placeholderMatches) |-> NameRegisteredBy(i)]
        first == [k \in 1 .. Len(parsed.vars) |->
                    Min({ i \in 1 .. Len(placeholderMatches) :
                            registered[i] = VarNames[k] })]
    IN /\ VarsAreUnique
       /\ { VarNames[k] : k \in 1 .. Len(parsed.vars) } =
            { registered[i] : i \in 1 .. Len(placeholderMatches) } \ { Undefined }
       /\ \A k, l \in 1 .. Len(parsed.vars) : k < l => first[k] < first[l]

\* C21 witness: under a header that declares a and then b, `#{?b}#{a}#{/}`
\* compiles to vars a, b: b is seen first but registered at its close.
C21_Witness ==
  /\ phase = "parsed"
  /\ FrontmatterMatch(content).found
  /\ FrontmatterMatch(content).yamlContent = YamlAB
  /\ body = <<"#", "{", "?", "b", "}", "#", "{", "a", "}", "#", "{", "/", "}">>
  /\ VarNames = << <<"a">>, <<"b">> >>

\* The loop is at a match: the match, its trimmed name and the top frame.
AtMatch == phase = "scan" /\ matchIdx <= Len(placeholderMatches)
CurrentMatch == placeholderMatches[matchIdx]
CurrentName == Trim(CurrentMatch.name)
TopFrame == blockStack[Len(blockStack)]

\* What the turn of the loop appends when the match stays literal: the text
\* before the match, if any, and then the full matched text.
LiteralTail ==
  LET precedingText == Slice(body, lastIndex + 1, CurrentMatch.index - 1) IN
  (IF precedingText # <<>> THEN << TextNode(precedingText) >> ELSE <<>>)
    \o << TextNode(FullMatch(body, CurrentMatch)) >>

\* The turn of the loop leaves every frame below the top one, and the
\* variable of the top one, as they are.
LowerFramesKept ==
  /\ Len(blockStack') = Len(blockStack)
  /\ \A k \in 1 .. Len(blockStack) - 1 : blockStack'[k] = blockStack[k]
  /\ blockStack'[Len(blockStack)].variable = TopFrame.variable

\* The turn of the loop appends the match as a literal to the top frame and
\* changes nothing else of the scan.
StaysLiteral ==
  /\ LowerFramesKept
  /\ blockStack'[Len(blockStack)].content = TopFrame.content \o LiteralTail
  /\ \A k \in 1 .. Len(blockStack') :
       \A n \in NodesOf(blockStack'[k].content) \ NodesOf(blockStack[k].content) :
         n.type = "text"
  /\ seenVariables' = seenVariables
  /\ frontmatter' = frontmatter

\* C22 (as claimed): a plain marker whose trimmed name is empty, or has no
\* entry in the header map when it is scanned, is appended unchanged as a
\* literal to the top frame; no Placeholder is made, vars and the scope stack
\* stay as they are.
C22_UndeclaredPlainMarkerStaysLiteral ==
  [][(AtMatch /\ CurrentMatch.prefix = ""
        /\ (CurrentName = <<>> \/ CurrentName \notin DOMAIN frontmatter))
      => StaysLiteral]_vars

\* The match a Placeholder node of the AST was built from.
MatchOf(node) ==
  CHOOSE i \in 1 .. Len(placeholderMatches) :
    placeholderMatches[i].index = node.start + 1

\* The header map, when the i-th match is scanned, flags the name optional.
FlaggedOptional(i, name) ==
  LET header == ScanBefore(i).frontmatter IN
  name \in DOMAIN header /\ header[name].optional

\* C23 (as claimed): a Placeholder built from a plain marker has optional
\* true exactly when the marker ends in `?` or the header entry of its name
\* is flagged optional, and optional false otherwise.
C23_OptionalIsSuffixOrHeaderFlag ==
  Compiled =>
    \A n \in Placeholders :
      LET i == MatchOf(n) IN
      /\ "optional" \in DOMAIN n
      /\ n.optional \in BOOLEAN
      /\ n.optional <=>
           (placeholderMatches[i].suffix = "?" \/ FlaggedOptional(i, n.name))

\* The optional property of a node as a value that can be compared: the
\* flag, or nothing when it is undefined.
OptionalOf(node) ==
  IF "optional" \in DOMAIN node THEN << node.optional >> ELSE <<>>

\* The first Placeholder node the scan built for the name.
FirstOccurrence(name) ==
  CHOOSE n \in Placeholders :
    /\ n.name = name
    /\ \A o \in Placeholders : o.name = name => n.start <= o.start

\* C24 (as claimed): every Placeholder node of the AST has the description
\* and the optional flag of the vars entry of its name, and the optional flag
\* of the first occurrence of the name, however the later occurrence is
\* written.
C24_OccurrencesShareIdentity ==
  Compiled =>
    \A n \in Placeholders :
      /\ \E k \in 1 .. Len(parsed.vars) :
           /\ parsed.vars[k].name = n.name
           /\ parsed.vars[k].description = n.description
           /\ OptionalOf(parsed.vars[k]) = OptionalOf(n)
      /\ OptionalOf(n) = OptionalOf(FirstOccurrence(n.name))

\* The text before the match the loop is at, as the node the turn pushes.
PrecedingNodes ==
  LET precedingText == Slice(body, lastIndex + 1, CurrentMatch.index - 1) IN
  IF precedingText # <<>> THEN << TextNode(precedingText) >> ELSE <<>>

\* The loop is at a block end that is bare or names the variable of the
\* innermost open scope.
AtMatchingEnd ==
  /\ AtMatch
  /\ CurrentMatch.prefix = "/"
  /\ Len(blockStack) > 1
  /\ CurrentName \in { <<>>, TopFrame.variable }

\* The turn of the loop pops the innermost frame, and only it, and appends
\* one block of its variable and content to the frame below.
ClosesInnermost ==
  LET depth == Len(blockStack) IN
  /\ Len(blockStack') = depth - 1
  /\ \A k \in 1 .. depth - 2 : blockStack'[k] = blockStack[k]
  /\ blockStack'[depth - 1].variable = blockStack[depth - 1].variable
  /\ blockStack'[depth - 1].content =
       blockStack[depth - 1].content
         \o << BlockNode(TopFrame.variable, TopFrame.content \o PrecedingNodes) >>

\* C25: a block end marker that is bare or names the variable of the
\* innermost open scope pops exactly that frame and appends one
\* ConditionalBlock with its variable and accumulated content to the frame
\* directly below; no outer frame is closed.
C25_MatchingEndClosesInnermost ==
  [][AtMatchingEnd => ClosesInnermost]_vars

\* C25 witness: in `#{?a}x#{?b}#{a}#{/b}x#{/}` the end `#{/b}` has just been
\* handled: the block of b, with the placeholder it holds, is a child of the
\* scope of a, which is still open.
C25_Witness ==
  /\ phase = "scan"
  /\ matchIdx = 5
  /\ placeholderMatches[4].prefix = "/"
  /\ Len(blockStack) = 2
  /\ blockStack[1].content = <<>>
  /\ blockStack[2].variable = <<"a">>
  /\ Len(blockStack[2].content) = 2
  /\ blockStack[2].content[1] = TextNode(<<"x">>)
  /\ blockStack[2].content[2].type = "block"
  /\ blockStack[2].content[2].variable = <<"b">>
  /\ Len(blockStack[2].content[2].content) = 1
  /\ blockStack[2].content[2].content[1].type = "placeholder"

\* The content the k-th frame has accumulated at the end of the input: the
\* text after the last match belongs to the innermost frame.
RemainingNodes ==
  LET remainingText == Slice(body, lastIndex + 1, Len(body)) IN
  IF remainingText # <<>> THEN << TextNode(remainingText) >> ELSE <<>>

AccumulatedContent(k) ==
  blockStack[k].content \o (IF k = Len(blockStack) THEN RemainingNodes ELSE <<>>)

\* The number of block nodes of an AST, at any depth.
RECURSIVE CountBlocks(_)
CountBlocks(nodes) ==
  IF nodes = <<>> THEN 0
  ELSE (IF Head(nodes).type = "block"
        THEN 1 + CountBlocks(Head(nodes).content) ELSE 0)
       + CountBlocks(Tail(nodes))

\* The block ends of the body that closed a scope.
ClosingEnds ==
  { i \in 1 .. Len(placeholderMatches) :
      placeholderMatches[i].prefix = "/" /\ NameRegisteredBy(i) # Undefined }

\* C26: when k >= 1 scopes are open at the end of the input, the AST is, for
\* each open frame from the innermost to the outermost, the literal
\* `#{?variable}` and then the content of the frame, and last the content of
\* the root frame; an unclosed scope gives no ConditionalBlock.
C26_UnclosedScopesFlushInnermostFirst ==
  (Compiled /\ Len(blockStack) > 1) =>
    LET depth == Len(blockStack)
        flushed ==
          [j \in 1 .. depth - 1 |->
             << TextNode(<<"#", "{", "?">> \o blockStack[depth + 1 - j].variable
                           \o <<"}">>) >>
               \o AccumulatedContent(depth + 1 - j)]
    IN /\ parsed.ast = Flatten(flushed) \o AccumulatedContent(1)
       /\ CountBlocks(parsed.ast) = Cardinality(ClosingEnds)

\* C26 witness: `x#{?a}#{?b}` leaves two scopes open and compiles to the
\* literals `#{?b}`, `#{?a}` and then the root text x.
C26_Witness ==
  /\ phase = "parsed"
  /\ Len(blockStack) = 3
  /\ body = <<"x", "#", "{", "?", "a", "}", "#", "{", "?", "b", "}">>
  /\ parsed.ast = << TextNode(<<"#", "{", "?", "b", "}">>),
                     TextNode(<<"#", "{", "?", "a", "}">>),
                     TextNode(<<"x">>) >>

\* C27: a block end marker, bare or named, scanned while only the root frame
\* is on the scope stack is appended to the root content as literal text;
\* the stack and vars stay as they are.
C27_StrayEndStaysLiteral ==
  [][(AtMatch /\ CurrentMatch.prefix = "/" /\ Len(blockStack) = 1)
      => /\ StaysLiteral
         /\ Len(blockStack') = 1]_vars

\* C27 witness: in a body that starts `x#{/a}` the end marker has just been
\* handled with no scope open: the root frame holds x and the marker as
\* texts, and no variable is registered.
C27_Witness ==
  /\ phase = "scan"
  /\ matchIdx = 2
  /\ placeholderMatches[1].prefix = "/"
  /\ blockStack =
       << [variable |-> Undefined,
           content |-> << TextNode(<<"x">>),
                          TextNode(<<"#", "{", "/", "a", "}">>) >>] >>
  /\ seenVariables = <<>>

\* C28: for every ConditionalBlock node of the AST parseTemplate returns, at
\* the top level, nested, or in the content of an unclosed scope, vars has
\* an entry whose name is the control variable of the block.
C28_BlockVariableIsInVars ==
  Compiled =>
    \A n \in Blocks :
      \E k \in 1 .. Len(parsed.vars) : parsed.vars[k].name = n.variable

\* C28 witness: `#{?a}#{?b}#{/}` leaves the scope of a open; the block of b
\* lies in the flushed content of that scope and b is the one entry of vars.
C28_Witness ==
  /\ phase = "parsed"
  /\ Len(blockStack) = 2
  /\ blockStack[2].variable = <<"a">>
  /\ parsed.ast = << TextNode(<<"#", "{", "?", "a", "}">>),
                     BlockNode(<<"b">>, <<>>) >>
  /\ VarNames = << <<"b">> >>

\* The value the header map holds for the name after the scan (undefined for
\* a name it has no entry for).
HeaderValue(name) == FrontmatterGet(frontmatter, name).value

\* The text has no character that is not blank, or is undefined.
IsBlank(text) == text = Undefined \/ Trim(text) = <<>>

\* C29: the schema description of a variable is its header value, or
\* `Variable: <name>` when that value is empty, whitespace-only or undefined;
\* the fallback is in the schema only: the entry of vars and the Placeholder
\* nodes of the AST keep the header value as it is.  (Which properties the
\* schema has is C16.)
C29_SchemaDescriptionFallback ==
  Compiled =>
    \A k \in 1 .. Len(parsed.vars) :
      LET v == parsed.vars[k]
          properties == parsed.inputSchema.properties
      IN /\ v.description = HeaderValue(v.name)
         /\ \A n \in Placeholders :
              n.name = v.name => n.description = HeaderValue(v.name)
         /\ v.name \in DOMAIN properties =>
              properties[v.name].description =
                IF IsBlank(HeaderValue(v.name))
                THEN <<"Variable: ">> \o v.name
                ELSE HeaderValue(v.name)

\* C29 witness: under the header `a: " "` the body `#{a}` compiles to a
\* schema that describes a as `Variable: a`, while the entry of vars and the
\* node of the AST keep the blank.
C29_Witness ==
  /\ phase = "parsed"
  /\ body = <<"#", "{", "a", "}">>
  /\ Len(parsed.vars) = 1
  /\ parsed.vars[1].description = <<" ">>
  /\ Len(parsed.ast) = 1
  /\ parsed.ast[1].description = <<" ">>
  /\ parsed.inputSchema.properties[<<"a">>].description = <<"Variable: ", "a">>

\* C30: renderTemplate leaves the compiled template as the compile made it,
\* and under any interleaving of the calls of the callers, each with its own
\* values, every call returns what renderTemplate returns for its values on
\* the template when it runs alone.
C30_RendersDoNotInterfere ==
  /\ [][phase = "parsed" => parsed' = parsed]_vars
  /\ [](\A c \in Callers :
          (running[c] # NotYet /\ running[c].done) =>
            /\ parsed = parseTemplate(content)
            /\ running[c].result =
                 renderTemplate(parseTemplate(content), running[c].values))

\* C30 witness: two callers render the template with the block at the same
\* time with different values; the first call has returned `xVV` while the
\* second, which has no value for b, has rendered one node of two.
C30_Witness ==
  /\ Len(parsed.ast) = 2
  /\ parsed.ast[1].type = "block"
  /\ running[1] # NotYet /\ running[2] # NotYet
  /\ running[1].values = (<<"a">> :> <<"V">> @@ <<"b">> :> <<"V">>)
  /\ running[1].done
  /\ running[1].result = Rendered(<<"x", "V", "V">>)
  /\ running[2].values = (<<"a">> :> <<" ">>)
  /\ ~running[2].done
  /\ running[2].next = 2
  /\ running[2].parts = << <<>> >>

\* The call of c has returned its template.
HasCompiled(c) == compiling[c] # NotYet /\ compiling[c].parsed # NotYet

\* The call of c is inside buildASTFromBody.
IsCompiling(c) == compiling[c] # NotYet /\ compiling[c].parsed = NotYet

\* The state of the loop when a compile of the document alone has handled
\* the matches before the n-th.
AloneBefore(doc, n) ==
  LET fm == extractFrontmatter(doc) IN
  ScanFrom(ScanStart(fm.frontmatter), fm.body,
           SubSeq(MatchAll(fm.body, 1), 1, n - 1), 1)

\* C31: the result of parseTemplate depends on its input text only. At every
\* turn of its loop a compile is in the state that a compile of its document
\* alone is in, header map included, so no entry another compile synthesized
\* for a block variable shows in it; its result is the one of a compile of its
\* document alone, and two compiles of the same text give equal results,
\* however the calls of the callers interleave.
C31_CompileDependsOnTextOnly ==
  /\ \A c \in Compilers :
       IsCompiling(c) =>
         LoopState(c) = AloneBefore(compiling[c].content, compiling[c].matchIdx)
  /\ \A c \in Compilers :
       HasCompiled(c) => compiling[c].parsed = parseTemplate(compiling[c].content)
  /\ \A c, d \in Compilers :
       (HasCompiled(c) /\ HasCompiled(d)
          /\ compiling[c].content = compiling[d].content)
         => compiling[c].parsed = compiling[d].parsed

\* C31 witness: one caller is inside a compile where a block start has
\* synthesized the header entry of b, while another caller is inside a
\* compile of `#{b}` and has taken the marker as literal text, no variable.
C31_Witness ==
  \E c, d \in Compilers :
    /\ IsCompiling(c)
    /\ <<"b">> \in DOMAIN LoopState(c).frontmatter
    /\ compiling[c].matchIdx = 2
    /\ IsCompiling(d)
    /\ compiling[d].content = <<"#", "{", "b", "}">>
    /\ compiling[d].matchIdx = 2
    /\ compiling[d].blockStack[1].content = << TextNode(<<"#", "{", "b", "}">>) >>
    /\ compiling[d].seenVariables = <<>>
    /\ <<"b">> \notin DOMAIN LoopState(d).frontmatter

\* The notifyHandlers call is over, with its promise resolved or rejected.
NotifyOver == notifying # NotYet /\ notifying.outcome # "pending"

\* C32 (as claimed): when a registered handler throws or rejects for a file
\* event, every other registered handler is still invoked for that event and
\* the notification completes without an error for its caller.
C32_FailingHandlerIsContained ==
  (NotifyOver /\ \E i \in 1 .. Len(handlers) : handlers[i] \in { "rejects", "throws" })
    => /\ notifying.invoked = 1 .. Len(handlers)
       /\ notifying.outcome = "resolved"

\* C33 (as claimed): a handler is told of an add or a change with the content
\* of the file, a text, and of an unlink with undefined content; no add or
\* change is delivered with undefined content.
C33_ContentMatchesEvent ==
  handled # NotYet =>
    /\ handled.event \in { "add", "change" } => handled.content # Undefined
    /\ handled.event = "unlink" => handled.content = Undefined

\* The positions that end a line of the text: before its first character,
\* every newline, and after its last character.
Breaks(text) ==
  { 0 } \cup { i \in 1 .. Len(text) : text[i] = "\n" } \cup { Len(text) + 1 }

\* The line of the text that starts after the break b.
LineAfter(text, b) ==
  Slice(text, b + 1, Min({ x \in Breaks(text) : x > b }) - 1)

\* The line is not blank and starts, blanks aside, with neither # nor $.
Qualifies(line) ==
  Trim(line) # <<>> /\ Trim(line)[1] # "#" /\ Trim(line)[1] # "$"

\* The description the claim gives a file text.
ClaimedDescription(text) ==
  LET starts == { b \in Breaks(text) \ { Len(text) + 1 } :
                    Qualifies(LineAfter(text, b)) }
  IN IF starts = {} THEN <<"Command">>
     ELSE LET line == Trim(LineAfter(text, Min(starts))) IN
          IF Len(line) <= DescriptionMax THEN line
          ELSE SubSeq(line, 1, DescriptionMax)

\* The text of the one file of the directory.
TheFile == files[[dir |-> "d1", name |-> "t"]]

\* C34: the description of a registered tool is the first line of the file
\* text that is not blank after trimming and does not start with # or $,
\* trimmed and cut to at most 100 characters, or 'Command' when there is no
\* such line; the lines of a header count like any other line, so that a file
\* that starts with a header is described by its fence line. The list of tools
\* shows the same description.
C34_DescriptionIsFirstQualifyingLine ==
  /\ \A i \in 1 .. Len(tools) :
       /\ tools[i].description = ClaimedDescription(TheFile)
       /\ Len(tools[i].description) <= DescriptionMax
       /\ FrontmatterMatch(TheFile).found =>
            tools[i].description = <<"-", "-", "-">>
  /\ (response # NotYet /\ response.request = "ListTools") =>
       \A i \in 1 .. Len(response.outcome.result) :
         response.outcome.result[i].description = ClaimedDescription(TheFile)

\* C34 witness: the tool of a file with a header that declares a, followed
\* by a line of text, is registered and described by the fence line.
C34_Witness ==
  /\ TheFile = Header(YamlA) \o <<"d">>
  /\ Len(tools) = 1
  /\ tools[1].name = "t"
  /\ tools[1].description = <<"-", "-", "-">>
  /\ tools[1].parsed.ast = << TextNode(<<"d">>) >>

\* A GetPrompt request for a registered template is being answered.
GetPromptAnswered ==
  /\ response # NotYet
  /\ response.request = "GetPrompt"
  /\ ToolsHas(tools, response.name)

\* C35 (as claimed): a GetPrompt request for a registered template renders it
\* with the arguments supplied and never rejects; every variable that is no
\* key of the arguments shows as `#{name}` in the returned message, where
\* CallTool rejects the same arguments when such a variable is required.
C35_GetPromptLeavesMarkers ==
  GetPromptAnswered =>
    LET template == ToolsGet(tools, response.name).parsed IN
    /\ ~response.outcome.threw
    /\ \A i \in 1 .. Len(template.vars) :
         template.vars[i].name \notin DOMAIN response.args =>
           Occurs(PlaceholderMarker(template.vars[i].name), response.outcome.result)
    /\ NotSupplied(template.vars, response.args) # <<>> =>
         CallTool(tools, response.name, response.args).threw

\* The names the header of the document declares.
Declared == DOMAIN extractFrontmatter(content).frontmatter

\* A block start naming x was scanned before the i-th match.
BlockStartBefore(i, x) ==
  \E j \in 1 .. i - 1 :
    placeholderMatches[j].prefix = "?" /\ Trim(placeholderMatches[j].name) = x

\* The i-th match became a Placeholder of the AST, which a render given the
\* value V for its name replaces by V.
IsLivePlaceholder(i) ==
  \E n \in Placeholders :
    /\ n.start = placeholderMatches[i].index - 1
    /\ n.end = placeholderMatches[i].end
    /\ n.name = Trim(placeholderMatches[i].name)
    /\ RenderNode(n, n.name :> <<"V">>) = Rendered(<<"V">>)

\* C36 (as claimed): for a name x that the header does not declare, a plain
\* marker of x becomes a live Placeholder if and only if a block start of x
\* was scanned earlier in the same body, closed or not; before the first
\* block start of x the marker stays literal text.
C36_LiveIffBlockStartEarlier ==
  Compiled =>
    \A i \in 1 .. Len(placeholderMatches) :
      LET m == placeholderMatches[i]
          x == Trim(m.name)
      IN (m.prefix = "" /\ x # <<>> /\ x \notin Declared) =>
           /\ IsLivePlaceholder(i) <=> BlockStartBefore(i, x)
           /\ ~BlockStartBefore(i, x) =>
                TextNode(FullMatch(body, m)) \in AstNodes

\* The placeholder node with its optional flag set as given.
WithOptional(n, flag) ==
  PlaceholderNode(n.name, n.description, n.start, n.end, << flag >>)

\* C37 (as claimed): for every placeholder name and every mapping, a
\* Placeholder renders the same with its optional flag true and false: a
\* supplied value, the empty text included, as it is, and an absent key as
\* the marker `#{name}`.
C37_OptionalFlagDoesNotChangeRender ==
  Compiled =>
    \A n \in Placeholders :
      \A values \in ValueMaps :
        LET asOptional == RenderNode(WithOptional(n, TRUE), values)
            asRequired == RenderNode(WithOptional(n, FALSE), values)
        IN /\ asOptional = asRequired
           /\ RenderNode(n, values) = asRequired
           /\ n.name \in DOMAIN values => asRequired = Rendered(values[n.name])
           /\ n.name \notin DOMAIN values =>
                asRequired = Rendered(PlaceholderMarker(n.name))

\* The watcher is watching and nothing is pending: no start() or stop() is
\* under way, no read is awaited and no handler is running.
Settled ==
  /\ created > 0
  /\ open # {}
  /\ call = "none"
  /\ reading = {}
  /\ Quiet

\* A file of the basename that is not empty exists in a watched directory.
NonEmptyFileExists(name) ==
  \E p \in FilePaths : basename(p) = name /\ files[p] \notin { NoFile, <<>> }

\* C38 (as claimed): once all pending file events are handled, a tool named
\* n is registered if and only if a non-empty file of basename n exists in a
\* watched directory, also when two watched directories hold files of the
\* same basename.
C38_RegisteredIffFileExists ==
  Settled =>
    \A p \in FilePaths :
      ToolsHas(tools, basename(p)) <=> NonEmptyFileExists(basename(p))


\* The await of the read r of a 'change' ends in this step, after the file
\* was removed while the one chokidar instance was watching (so its unlink
\* has been handled), no file of the basename is left and no other read
\* is awaited.
ChangeReadEndsAfterUnlink(r) ==
  /\ r \in reading
  /\ r.event = "change"
  /\ r.content # Pending
  /\ created = 1
  /\ open # {}
  /\ \A q \in FilePaths : basename(q) = basename(r.filePath) => files[q] = NoFile
  /\ reading' = {}
  /\ handled' = FileChangeEvent(r.event, r.filePath, r.content)

\* C39 (as claimed): when the unlink of a file is handled while a change of
\* the same file is still being read, the read that ends later does not
\* register the tool again: with all handlers done the tool is not
\* registered.
C39_LateReadDoesNotReRegister ==
  [][\A r \in reading :
       ChangeReadEndsAfterUnlink(r) => ~ToolsHas(tools', basename(r.filePath))]_vars


\* The shape of the scope stack: a root frame without a variable at the
\* bottom, and above it frames whose variable is a trimmed, non-empty name.
StackShape ==
  /\ Len(blockStack) >= 1
  /\ blockStack[1].variable = Undefined
  /\ \A k \in 2 .. Len(blockStack) :
       /\ blockStack[k].variable \notin { Undefined, <<>> }
       /\ Trim(blockStack[k].variable) = blockStack[k].variable

\* The loop is at a block start whose trimmed name is not empty.
AtNamedStart ==
  /\ AtMatch
  /\ CurrentMatch.prefix = "?"
  /\ CurrentName # <<>>

\* What a step may do to the depth of the stack.
StackMoves ==
  \/ Len(blockStack') = Len(blockStack)
  \/ Len(blockStack') = Len(blockStack) + 1 /\ AtNamedStart
  \/ Len(blockStack') = Len(blockStack) - 1 /\ AtMatchingEnd

\* C40: at every point of the scan the scope stack is non-empty, its bottom
\* frame is the root frame without a variable, and every frame above it has
\* a non-empty trimmed variable name; the stack grows by one only on a block
\* start with a non-empty name and shrinks by one only on a bare or matching
\* block end.
C40_ScopeStackDiscipline ==
  /\ [](phase = "scan" => StackShape)
  /\ [][phase = "scan" => StackMoves]_vars

\* C40 witness: two named block starts have opened two scopes, one inside
\* the other, and the end marker after them has closed the inner one: the
\* stack went from one frame to three and is back at two.
C40_Witness ==
  /\ phase = "scan"
  /\ matchIdx = 4
  /\ placeholderMatches[1].prefix = "?"
  /\ placeholderMatches[2].prefix = "?"
  /\ placeholderMatches[3].prefix = "/"
  /\ Len(blockStack) = 2
  /\ blockStack[2].variable = Trim(placeholderMatches[1].name)
  /\ Len(blockStack[2].content) > 0
  /\ blockStack[2].content[Len(blockStack[2].content)].type = "block"

=============================================================================
